---------------------------- MODULE Spec2Model ----------------------------
(***************************************************************************)
(* Dialogue orchestration engine of the artisan assistant                  *)
(* (src/api/agentic_fastapi_app.py): the LangGraph workflow                *)
(*   check_user_profile -> onboarding_step -> END                          *)
(*   check_user_profile -> supervisor -> welfare_search | general_query    *)
(*                      -> structure_final_response -> END                 *)
(* its two turn entry points (POST /chat, WebSocket /ws/{user_id}), the    *)
(* SQLite profile store and the in-memory checkpointer keyed by thread id. *)
(*                                                                         *)
(* A text is a sequence of tokens.  Fixed texts of the program are one     *)
(* token each; utterances and language-model outputs are spelled token by  *)
(* token so that substring and digit scans are computed, not assumed.      *)
(* Python None is the text NONE.                                           *)
(*                                                                         *)
(* Both endpoints are `async def` bodies that call workflow.invoke         *)
(* synchronously, without an await between get_state and the end of the    *)
(* invoke, so on the single event loop one turn runs to its end before the *)
(* next one starts: the model has one turn in progress at a time.          *)
(***************************************************************************)
EXTENDS Naturals, Integers, Sequences, FiniteSets, TLC

(* ------------------------------ bounds -------------------------------- *)

\* Turns (chat or websocket) accepted over the whole run.
MaxTurns == 2

\* Profile deletions accepted over the whole run.
MaxDeletes == 1

Users == {"u1", "u2"}

\* Identities a request can carry besides a user's: '' and a blank string.
BlankIds == {"", " "}

Ids == Users \cup BlankIds

\* str.strip() of an identity.
Strip(id) == IF id = " " THEN "" ELSE id

(* ------------------------------ texts --------------------------------- *)

NONE == <<"<None>">>

EmptyText == <<>>

EmptyMap == [k \in {} |-> EmptyText]

Digits == {"0", "1", "2", "3", "4", "5", "6", "7", "8", "9"}

\* str.lower() on the letters the model's texts use.
LowerTok(c) ==
  CASE c = "F" -> "f"
    [] c = "O" -> "o"
    [] c = "R" -> "r"
    [] c = "M" -> "m"
    [] c = "W" -> "w"
    [] c = "S" -> "s"
    [] c = "B" -> "b"
    [] OTHER -> c

Lower(t) == [i \in 1..Len(t) |-> LowerTok(t[i])]

\* Python `sub in t`.
Contains(t, sub) ==
  \E i \in 1..(Len(t) + 1 - Len(sub)) :
     /\ i + Len(sub) - 1 <= Len(t)
     /\ SubSeq(t, i, i + Len(sub) - 1) = sub

IsPrefix(s, t) == Len(s) <= Len(t) /\ SubSeq(t, 1, Len(s)) = s

\* re.findall(r'\d+', t)[0]: the first maximal run of digits, EmptyText if none.
RECURSIVE DigitRun(_, _)
DigitRun(t, i) ==
  IF i > Len(t) \/ t[i] \notin Digits THEN EmptyText
  ELSE <<t[i]>> \o DigitRun(t, i + 1)

FirstNumber(t) ==
  IF \E i \in 1..Len(t) : t[i] \in Digits
  THEN DigitRun(t, CHOOSE i \in 1..Len(t) :
                     /\ t[i] \in Digits
                     /\ \A j \in 1..(i - 1) : t[j] \notin Digits)
  ELSE EmptyText

(* --------------------------- fixed texts ------------------------------ *)

WelcomeText == <<"Welcome! I'm your artisan brand assistant. I'll help you set up your craft profile, craft a compelling backstory, and support your content. Let's start simple - what should I call you or your brand?">>

SorryText == <<"I'm sorry, I couldn't process that request.">>

BackstorySuffix == <<" I've also crafted your brand backstory. You can fetch it anytime.">>

SearchFailedPrefix == <<"Unable to search welfare schemes: ">>

\* f"Great! {name}, your artisan profile is set."
CompletionText(name) == <<"Great! ">> \o name \o <<", your artisan profile is set.">>

\* Variant: the first two fields in the other order.
RequiredFieldsSwapped ==
  << "state", "name", "craft_type", "materials", "years_experience",
     "sales_channels", "price_range", "languages", "brand_style" >>

RequiredFields ==
  << "name", "state", "craft_type", "materials", "years_experience",
     "sales_channels", "price_range", "languages", "brand_style" >>

RequiredSet == {RequiredFields[i] : i \in 1..Len(RequiredFields)}

\* field_prompts.get(f, f"Please provide your {f}")
FieldPrompt(f) ==
  CASE f = "name" -> <<"What should I call your brand or what's your name?">>
    [] f = "state" -> <<"Which state/region in India are you based in?">>
    [] f = "craft_type" -> <<"What craft do you practice? (e.g., pottery, weaving, woodwork)">>
    [] f = "materials" -> <<"What materials do you mostly use? (e.g., clay, cotton, bamboo)">>
    [] f = "years_experience" -> <<"How many years have you been practicing this craft?">>
    [] f = "sales_channels" -> <<"Where do you usually sell? Online, offline, or both?">>
    [] f = "price_range" -> <<"What's your typical price range? (e.g., Rs 200-500, premium)">>
    [] f = "languages" -> <<"Which languages do you speak or want content in?">>
    [] f = "brand_style" -> <<"How would you describe your brand style or voice? (e.g., earthy, premium)">>
    [] OTHER -> <<"Please provide your ", f>>

(* ------------------------------ inputs -------------------------------- *)

\* Utterances a client sends: one without digits, one with two digit runs.
Utterances == { <<"H", "i">>, <<"s", "5", "5", " ", "7">> }

HumanMessage(c) == [role |-> "human", content |-> c]

AIMessage(c) == [role |-> "ai", content |-> c]


(* --------------------------- profile store ---------------------------- *)

\* A row of user_profiles: the nine artisan columns and backstory, or no row.
\* (The legacy columns and the timestamps are never read by the workflow.)
NoRecord == [present |-> FALSE, fields |-> EmptyMap, backstory |-> NONE]

\* dict.get(key): None for a missing key.
Get(d, k) == IF k \in DOMAIN d THEN d[k] ELSE NONE

\* dict.update(d)
Merge(p, d) ==
  [k \in (DOMAIN p) \cup (DOMAIN d) |-> IF k \in DOMAIN d THEN d[k] ELSE p[k]]

\* SQLiteStore.get_user_profile: the row as a dict, for a present row.
StoredProfile(u, rec) ==
  [k \in RequiredSet \cup {"user_id", "backstory"} |->
     IF k = "user_id" THEN <<u>>
     ELSE IF k = "backstory" THEN rec.backstory
     ELSE rec.fields[k]]

\* A JSON number among the values of a profile dict: json.loads gives an
\* int, written here as a marker followed by its digits.
IntValue(digits) == <<"<int>">> \o digits

IsInt(v) == v # <<>> /\ v[1] = "<int>"

\* A value bound to a TEXT column and read back: a str and None (NULL) come
\* back as they were, an int comes back as its decimal text.
ColumnText(v) == IF IsInt(v) THEN Tail(v) ELSE v

\* Variant: the row is replaced as a whole, so its backstory is lost.
BackstoryAfterSaveReplaced(rec) == NONE

\* The backstory column after save_user_profile: not in the SET list of the
\* UPDATE, not in the column list of the INSERT.
BackstoryAfterSave(rec) == IF rec.present THEN rec.backstory ELSE NONE

\* Variant: a row that exists is left as it is.
SaveUserProfileInsertOnly(rec, profile_data) ==
  IF rec.present THEN rec
  ELSE [present |-> TRUE,
        fields |-> [f \in RequiredSet |-> ColumnText(Get(profile_data, f))],
        backstory |-> BackstoryAfterSave(rec)]

\* SQLiteStore.save_user_profile: UPDATE of the profile columns of an
\* existing row, INSERT otherwise; every column is profile_data.get(column).
SaveUserProfile(rec, profile_data) ==
  [present |-> TRUE,
   fields |-> [f \in RequiredSet |-> ColumnText(Get(profile_data, f))],
   backstory |-> BackstoryAfterSave(rec)]

\* SQLiteStore.save_backstory: UPDATE ... WHERE user_id = ?
SaveBackstory(rec, text) ==
  IF rec.present THEN [rec EXCEPT !.backstory = text] ELSE rec

(* --------------------------- workflow state --------------------------- *)

\* AgentState as the checkpointer holds it for one thread.  A channel that
\* was never written reads as the default every reader passes to state.get:
\* FALSE for is_onboarding, the empty dict for user_profile_data.
NoState ==
  [exists |-> FALSE, messages |-> <<>>, is_onboarding |-> FALSE,
   user_profile_data |-> EmptyMap, intent |-> "", tool_output |-> NONE,
   final_response_text |-> EmptyText]

\* Observations of the turn in progress (what the turn did so far).
NoExtraction == [kind |-> "none", data |-> EmptyMap]

NoTurn ==
  [user |-> "u1", entry |-> "none", utt |-> EmptyText, prior |-> NoState,
   store0 |-> NoRecord, read |-> "none", welcomed |-> FALSE, ran |-> <<>>, writes |-> <<>>,
   ext |-> NoExtraction, before |-> EmptyMap, merged |-> EmptyMap,
   generated |-> FALSE, backstory_text |-> NONE, query |-> NONE,
   classified |-> NONE, norm |-> "none", asked |-> NONE]

NoResult ==
  [status |-> "none", response |-> EmptyText, is_onboarding |-> FALSE,
   backstory |-> NONE, user_profile |-> EmptyMap]

\* No update handled yet.
NoUpdate == [kind |-> "none", text |-> NONE, heard |-> "none"]

\* No request made to the chat backend by the handler.
NoReply == [ok |-> "none", response |-> NONE, is_onboarding |-> "absent"]

\* The bot before any update: no conversation, empty user_data, no backend
\* request made, nothing sent.
NoBot ==
  [state |-> "END", user_data |-> EmptyMap, handler |-> "none",
   update |-> NoUpdate, reply |-> NoReply, calls |-> 0, sent |-> NONE,
   ended |-> "none", generation |-> "none", inputs |-> EmptyMap,
   pages |-> 0, delivered |-> <<>>]

\* No REST request served yet.
NoRequest ==
  [endpoint |-> "none", id |-> "", code |-> 0, detail |-> "none", invoked |-> FALSE]

VARIABLES
  store,      \* user_profiles table: user -> row
  ckpt,       \* InMemorySaver: thread id (= user id) -> AgentState values
  pc,         \* node the turn in progress is about to run, "idle" between turns
  turn,       \* observations of the turn in progress
  res,        \* what the entry point returned for the last finished turn
  genCalls,   \* user -> number of backstory chain invocations so far
  nTurns,     \* turns accepted so far
  nDeletes,   \* profile deletions accepted so far
  media,      \* user_generated_media table, in insertion order
  api,        \* the last request to a REST endpoint and its outcome
  inbox,      \* chat requests received whose handler has not started yet
  bot         \* the Telegram bot: conversation state and user_data of one user

vars == <<store, ckpt, pc, turn, res, genCalls, nTurns, nDeletes, media, api, inbox, bot>>

Init ==
  /\ store = [u \in Ids |-> NoRecord]
  /\ ckpt = [u \in Ids |-> NoState]
  /\ pc = "idle"
  /\ turn = NoTurn
  /\ res = NoResult
  /\ genCalls = [u \in Ids |-> 0]
  /\ nTurns = 0
  /\ nDeletes = 0
  /\ media = <<>>
  /\ api = NoRequest
  /\ inbox = <<>>
  /\ bot = NoBot

\* A node raised: workflow.invoke propagates, the checkpoint keeps the values
\* of the last finished superstep, the endpoint answers HTTP 500.
TurnError(node) ==
  /\ pc' = "idle"
  /\ res' = [NoResult EXCEPT !.status = "error"]
  /\ UNCHANGED ckpt

(* ---------------------------- entry points ---------------------------- *)

BeginTurn(u, kind, m) ==
  [NoTurn EXCEPT !.user = u, !.entry = kind, !.utt = m, !.prior = ckpt[u],
                 !.store0 = store[u]]

\* Variant: the new utterance is put in front of the stored messages.
ChatInputPrepended(state, m) ==
  IF state.exists
  THEN [state EXCEPT !.messages = <<HumanMessage(m)>> \o state.messages]
  ELSE [NoState EXCEPT !.exists = TRUE, !.messages = <<HumanMessage(m)>>]

\* chat_endpoint up to workflow.invoke: continue the thread's state with the
\* new utterance appended, or start from {messages, user_id}.
ChatInput(state, m) ==
  IF state.exists
  THEN [state EXCEPT !.messages = Append(state.messages, HumanMessage(m))]
  ELSE [NoState EXCEPT !.exists = TRUE, !.messages = <<HumanMessage(m)>>]

\* Variant: handlers run in a thread pool, so one starts while another runs.
LoopFreeThreadPool == TRUE

\* chat_endpoint and websocket_endpoint are coroutines that call the blocking
\* workflow.invoke without awaiting anything between reading the state of the
\* thread and the end of the turn, and uvicorn.run starts one server process
\* with one event loop: a handler starts only when no handler is running.
LoopFree == pc = "idle"

ChatEntry(u, m) ==
  /\ UNCHANGED <<media, api, inbox, bot>>
  /\ LoopFree
  /\ nTurns < MaxTurns
  /\ ckpt' = [ckpt EXCEPT ![u] = ChatInput(ckpt[u], m)]
  /\ turn' = BeginTurn(u, "chat", m)
  /\ res' = NoResult
  /\ pc' = "check_user_profile"
  /\ nTurns' = nTurns + 1
  /\ UNCHANGED <<store, genCalls, nDeletes>>

\* websocket_endpoint up to workflow.invoke: every channel of the thread is
\* overwritten by initial_state.
WsInput(state, m) ==
  [exists |-> TRUE, messages |-> <<HumanMessage(m)>>, is_onboarding |-> FALSE,
   user_profile_data |-> EmptyMap, intent |-> "", tool_output |-> NONE,
   final_response_text |-> EmptyText]

WsEntry(u, m) ==
  /\ UNCHANGED <<media, api, inbox, bot>>
  /\ LoopFree
  /\ nTurns < MaxTurns
  /\ ckpt' = [ckpt EXCEPT ![u] = WsInput(ckpt[u], m)]
  /\ turn' = BeginTurn(u, "ws", m)
  /\ res' = NoResult
  /\ pc' = "check_user_profile"
  /\ nTurns' = nTurns + 1
  /\ UNCHANGED <<store, genCalls, nDeletes>>

(* ------------------------- check_user_profile ------------------------- *)

IsHuman(msg) == msg.role = "human"

HumanCount(msgs) == Cardinality({i \in 1..Len(msgs) : IsHuman(msgs[i])})

\* Variant: a read that raised counts as a profile when a row is stored.
ProfileExistsDespiteError(readOk, rec) == rec.present

\* profile_exists and stored_profile, for a read that returned or raised.
ProfileExists(readOk, rec) == readOk /\ rec.present

\* route_after_checking_profile
RouteAfterCheckingProfile(state) ==
  IF state.is_onboarding THEN "onboarding_step" ELSE "supervisor"

\* Variant: a thread that an earlier turn left out of onboarding keeps that
\* flag instead of having it derived from the store read.
CheckUserProfileNodeCached(state, u, readOk, rec) ==
  IF ProfileExists(readOk, rec)
     \/ (HumanCount(state.messages) > 1 /\ ~state.is_onboarding)
  THEN [state EXCEPT !.is_onboarding = FALSE,
                     !.user_profile_data = IF rec.present THEN StoredProfile(u, rec) ELSE @]
  ELSE IF HumanCount(state.messages) <= 1 /\ state.user_profile_data = EmptyMap
       THEN [state EXCEPT !.is_onboarding = TRUE,
                          !.messages = Append(state.messages, AIMessage(WelcomeText)),
                          !.final_response_text = WelcomeText]
       ELSE [state EXCEPT !.is_onboarding = TRUE]

\* The dict check_user_profile_node returns, applied to the state.  For an
\* empty user_id it returns {"error": ...} before the store is read; "error"
\* is not a key of AgentState, so the state stays as it was.
CheckUserProfileNode(state, u, readOk, rec) ==
  IF u = "" THEN state
  ELSE IF ProfileExists(readOk, rec)
  THEN [state EXCEPT !.is_onboarding = FALSE,
                     !.user_profile_data = StoredProfile(u, rec)]
  ELSE IF HumanCount(state.messages) <= 1 /\ state.user_profile_data = EmptyMap
       THEN [state EXCEPT !.is_onboarding = TRUE,
                          !.messages = Append(state.messages, AIMessage(WelcomeText)),
                          !.final_response_text = WelcomeText]
       ELSE [state EXCEPT !.is_onboarding = TRUE]

CheckUserProfile ==
  /\ UNCHANGED <<media, api, inbox, bot>>
  /\ pc = "check_user_profile"
  /\ \E readOk \in BOOLEAN :
       LET u == turn.user
           new == CheckUserProfileNode(ckpt[u], u, readOk, store[u])
       IN /\ ckpt' = [ckpt EXCEPT ![u] = new]
          /\ turn' = [turn EXCEPT
                        !.read = IF u = "" THEN "none"
                                 ELSE IF ~readOk THEN "error"
                                 ELSE IF store[u].present THEN "record" ELSE "absent",
                        !.welcomed = Len(new.messages) > Len(ckpt[u].messages),
                        !.ran = Append(turn.ran, "check_user_profile")]
          /\ pc' = RouteAfterCheckingProfile(new)
  /\ UNCHANGED <<store, res, genCalls, nTurns, nDeletes>>


(* --------------------------- onboarding_step -------------------------- *)

\* Python truthiness of a profile value: None and '' are falsy.
Falsy(v) == v = EmptyText \/ v = NONE

\* The most recent HumanMessage's content, '' when there is none.
RECURSIVE LastHuman(_)
LastHuman(msgs) ==
  IF msgs = <<>> THEN EmptyText
  ELSE IF IsHuman(msgs[Len(msgs)]) THEN msgs[Len(msgs)].content
  ELSE LastHuman(SubSeq(msgs, 1, Len(msgs) - 1))

\* missing_fields_for_prompt: required fields whose key is not in the profile.
MissingForPrompt(p) == SelectSeq(RequiredFields, LAMBDA f : f \notin DOMAIN p)

\* Variant: only the key's absence counts, an empty value passes.
MissingFieldsAbsentOnly(p) ==
  SelectSeq(RequiredFields, LAMBDA f : f \notin DOMAIN p)

\* missing_fields: required fields whose key is absent or whose value is falsy.
MissingFields(p) ==
  SelectSeq(RequiredFields, LAMBDA f : f \notin DOMAIN p \/ Falsy(p[f]))

\* The numeric fallback (both copies of it, after no JSON match and in the
\* except branch): only when years_experience heads missing_fields_for_prompt.
NumericFallback(p, user_message) ==
  IF /\ Len(MissingForPrompt(p)) > 0
     /\ MissingForPrompt(p)[1] = "years_experience"
     /\ FirstNumber(user_message) # EmptyText
  THEN Merge(p, [k \in {"years_experience"} |-> FirstNumber(user_message)])
  ELSE p

\* What the extraction chain did: it raised, its output had no {...} match,
\* the match failed json.loads, or the match parsed to the dict `data`.
ExtractionKinds == {"raise", "nojson", "badjson", "json"}

\* current_profile after the extraction block.
Extract(p, user_message, out) ==
  IF user_message = EmptyText THEN p
  ELSE IF out.kind = "json" THEN Merge(p, out.data)
  ELSE NumericFallback(p, user_message)

\* JSON objects the extractor returns: nothing; the field that would be asked
\* next; a later field; a renamed or an emptied name; every field not yet in
\* the profile; every field but the first, a middle or the last one; the first field not yet in the profile
\* together with an emptied name; every field but years_experience with the
\* name left empty.
ExtractedDicts(p) ==
  {EmptyMap}
  \cup {[k \in {f} |-> <<"a">>] :
          f \in {g \in RequiredSet : MissingFields(p) # <<>> /\ MissingFields(p)[1] = g}}
  \cup {[k \in {"brand_style"} |-> <<"a">>]}
  \cup {[k \in {"name"} |-> v] : v \in {EmptyText, <<"b">>}}
  \cup {[k \in RequiredSet \ DOMAIN p |-> <<"a">>]}
  \cup {[k \in RequiredSet \ {f} |-> <<"a">>] :
          f \in {"name", "years_experience", "brand_style"}}
  \cup {[k \in {f, "name"} |-> IF k = f THEN <<"a">> ELSE EmptyText] :
          f \in {g \in RequiredSet \ {"name"} :
                   MissingForPrompt(p) # <<>> /\ MissingForPrompt(p)[1] = g}}
  \cup {[k \in RequiredSet \ {"years_experience"} |->
           IF k = "name" THEN EmptyText ELSE <<"a">>]}

ExtractionOutcomes(p) ==
  {[kind |-> k, data |-> EmptyMap] : k \in ExtractionKinds \ {"json"}}
  \cup {[kind |-> "json", data |-> d] : d \in ExtractedDicts(p)}

\* Outputs of the backstory chain, already .strip()ped.
RawBackstories ==
  { <<"story">>,
    <<"Backstory:", "story", "\n", "Tagline:", "tag">> }

IndexOf(t, tok) ==
  IF \E i \in 1..Len(t) : t[i] = tok
  THEN CHOOSE i \in 1..Len(t) : t[i] = tok /\ \A j \in 1..(i - 1) : t[j] # tok
  ELSE 0

\* A whitespace token: the line break.
IsSpace(tok) == tok = "\n"

\* str.strip(): the text without its leading and trailing whitespace.
StripText(t) ==
  LET ns == {i \in 1..Len(t) : ~IsSpace(t[i])}
  IN IF ns = {} THEN EmptyText
     ELSE SubSeq(t, CHOOSE i \in ns : \A j \in ns : i <= j,
                    CHOOSE i \in ns : \A j \in ns : j <= i)

\* `\n\s*Tagline:` matches at position j: a line break, any whitespace, the
\* label.
TaglineAhead(raw, j) ==
  /\ j \in 1..Len(raw) /\ raw[j] = "\n"
  /\ \E k \in (j + 1)..Len(raw) :
       raw[k] = "Tagline:" /\ \A i \in (j + 1)..(k - 1) : IsSpace(raw[i])

\* bs_match: the first label 'Backstory:' that has text after it, the
\* whitespace after the label skipped, then the shortest text that ends
\* before `\n\s*Tagline:` or at the end; the whole text without a match.
BackstorySection(raw) ==
  LET b == IndexOf(raw, "Backstory:")
      body == {i \in (b + 1)..Len(raw) : ~IsSpace(raw[i])}
      s == IF body = {} THEN Len(raw) + 1 ELSE CHOOSE i \in body : \A j \in body : i <= j
      ends == {j \in (s + 1)..Len(raw) : TaglineAhead(raw, j)}
      stop == IF ends = {} THEN Len(raw) + 1
              ELSE CHOOSE j \in ends : \A k \in ends : j <= k
  IN IF b = 0 \/ body = {} THEN raw ELSE StripText(SubSeq(raw, s, stop - 1))

\* tl_match: everything after the first label 'Tagline:' that has text after
\* it; the empty text without a match.
TaglineSection(raw) ==
  LET t == IndexOf(raw, "Tagline:")
  IN IF t = 0 \/ t = Len(raw) THEN EmptyText
     ELSE StripText(SubSeq(raw, t + 1, Len(raw)))

BackstoryText(raw) ==
  BackstorySection(raw)
    \o (IF TaglineSection(raw) # EmptyText
        THEN <<"\n\nTagline: ">> \o TaglineSection(raw) ELSE EmptyText)

\* `if not existing_backstory`: generate only when the row read back after
\* the save carries no backstory; a failed read counts as none.
ShouldGenerate(readOk, rec) == ~readOk \/ ~rec.present \/ Falsy(rec.backstory)

\* Variant: the completion text announces a backstory in every case.
FinalTextAlwaysAnnounced(base, stored) == base \o BackstorySuffix

\* final_text of the completion branch: the sentence about the backstory is
\* added only after save_backstory has returned.
FinalText(base, stored) == IF stored THEN base \o BackstorySuffix ELSE base

\* The non-completion return: ask for missing_fields[0].
AskNext(state, p) ==
  [state EXCEPT !.is_onboarding = TRUE,
                !.user_profile_data = p,
                !.messages = Append(state.messages, AIMessage(FieldPrompt(MissingFields(p)[1]))),
                !.final_response_text = FieldPrompt(MissingFields(p)[1])]

\* Variant: the completion return leaves is_onboarding as it was.
CompleteStillOnboarding(state, p, final_text) ==
  [state EXCEPT !.user_profile_data = p,
                !.messages = Append(state.messages, AIMessage(final_text)),
                !.final_response_text = final_text]

\* The completion return with the final text of the turn.
Complete(state, p, final_text) ==
  [state EXCEPT !.is_onboarding = FALSE,
                !.user_profile_data = p,
                !.messages = Append(state.messages, AIMessage(final_text)),
                !.final_response_text = final_text]

\* Variant: a turn that completes the profile goes on to the intent router.
AfterOnboardingStepRouted(state) ==
  IF state.is_onboarding THEN "end" ELSE "supervisor"

\* workflow.add_edge("onboarding_step", END)
AfterOnboardingStep(state) == "end"

\* Variant: the completion branch swallows the exception of the profile save
\* and returns its completion dict.
SaveUserProfileRaisesSwallowed(u, state, p, t1) ==
  /\ ckpt' = [ckpt EXCEPT
                ![u] = Complete(state, p, CompletionText(Get(p, "name")))]
  /\ pc' = AfterOnboardingStep(state)
  /\ turn' = t1
  /\ UNCHANGED <<store, res, genCalls>>

\* save_user_profile raises at line 343: nothing in the node catches it, the
\* transaction is rolled back and the exception leaves workflow.invoke.
SaveUserProfileRaises(u, state, p, t1) ==
  /\ TurnError("onboarding_step")
  /\ turn' = t1
  /\ UNCHANGED <<store, genCalls>>

OnboardingStep ==
  /\ UNCHANGED <<media, api, inbox, bot>>
  /\ pc = "onboarding_step"
  /\ LET u == turn.user
         state == ckpt[u]
         user_message == LastHuman(state.messages)
     IN IF ~state.is_onboarding
        THEN /\ pc' = AfterOnboardingStep(state)
             /\ turn' = [turn EXCEPT !.ran = Append(turn.ran, "onboarding_step")]
             /\ UNCHANGED <<ckpt, store, res, genCalls>>
        ELSE
        \E out \in ExtractionOutcomes(state.user_profile_data) :
          LET p == Extract(state.user_profile_data, user_message, out)
              t1 == [turn EXCEPT
                       !.ran = Append(turn.ran, "onboarding_step"),
                       !.ext = IF user_message = EmptyText THEN NoExtraction ELSE out,
                       !.before = state.user_profile_data,
                       !.merged = p]
          IN IF MissingFields(p) # <<>>
             THEN /\ ckpt' = [ckpt EXCEPT ![u] = AskNext(state, p)]
                  /\ turn' = t1
                  /\ pc' = AfterOnboardingStep(AskNext(state, p))
                  /\ UNCHANGED <<store, res, genCalls>>
             ELSE
             \/ SaveUserProfileRaises(u, state, p, t1)
             \/ \* save_user_profile returns
                \E readOk \in BOOLEAN :
                  LET saved == SaveUserProfile(store[u], p)
                      base == CompletionText(Get(p, "name"))
                      t2 == [t1 EXCEPT !.writes = Append(t1.writes, "save_user_profile")]
                  IN IF ~ShouldGenerate(readOk, saved)
                     THEN /\ store' = [store EXCEPT ![u] = saved]
                          /\ ckpt' = [ckpt EXCEPT
                                        ![u] = Complete(state, p, FinalText(base, FALSE))]
                          /\ turn' = t2
                          /\ pc' = AfterOnboardingStep(Complete(state, p, base))
                          /\ UNCHANGED <<res, genCalls>>
                     ELSE
                     /\ genCalls' = [genCalls EXCEPT ![u] = @ + 1]
                     /\ pc' = AfterOnboardingStep(Complete(state, p, base))
                     /\ UNCHANGED res
                     /\ \/ \* the backstory chain raises
                           /\ store' = [store EXCEPT ![u] = saved]
                           /\ ckpt' = [ckpt EXCEPT
                                         ![u] = Complete(state, p, FinalText(base, FALSE))]
                           /\ turn' = [t2 EXCEPT !.generated = TRUE]
                        \/ \* the chain returns, save_backstory raises
                           \E raw \in RawBackstories :
                             /\ store' = [store EXCEPT ![u] = saved]
                             /\ ckpt' = [ckpt EXCEPT
                                           ![u] = Complete(state, p, FinalText(base, FALSE))]
                             /\ turn' = [t2 EXCEPT !.generated = TRUE]
                        \/ \* the chain returns, save_backstory returns
                           \E raw \in RawBackstories :
                             /\ store' = [store EXCEPT
                                            ![u] = SaveBackstory(saved, BackstoryText(raw))]
                             /\ ckpt' = [ckpt EXCEPT
                                           ![u] = Complete(state, p, FinalText(base, TRUE))]
                             /\ turn' = [t2 EXCEPT
                                           !.generated = TRUE,
                                           !.writes = Append(t2.writes, "save_backstory"),
                                           !.backstory_text = BackstoryText(raw)]
  /\ UNCHANGED <<nTurns, nDeletes>>


(* ------------------- supervisor and the two handlers ------------------ *)

\* Outputs of the classifier chain, already .strip()ped.
ClassifierOutputs ==
  { <<"w", "e", "l", "f", "a", "r", "e", "_", "s", "e", "a", "r", "c", "h">>,
    <<"S", "c", "h", "e", "m", "e">>,
    <<"B", "e", "n", "e", "f", "i", "t", "s">>,
    <<"g", "e", "n", "e", "r", "a", "l">> }

\* Variant: the mapping without its third substring.
FinalIntentTwoWords(raw) ==
  IF \/ Contains(Lower(raw), <<"w", "e", "l", "f", "a", "r", "e">>)
     \/ Contains(Lower(raw), <<"s", "c", "h", "e", "m", "e">>)
  THEN "welfare_search"
  ELSE "general_query"

\* "Map intent variations"
FinalIntent(raw) ==
  IF \/ Contains(Lower(raw), <<"w", "e", "l", "f", "a", "r", "e">>)
     \/ Contains(Lower(raw), <<"s", "c", "h", "e", "m", "e">>)
     \/ Contains(Lower(raw), <<"b", "e", "n", "e", "f", "i", "t">>)
  THEN "welfare_search"
  ELSE "general_query"

\* Variant: every classified turn is routed to the general-query handler.
RouteAfterSupervisorGeneral(state) == "general_query"

\* route_after_supervisor; the conditional edge maps each of the two intents
\* to the node of the same name.
RouteAfterSupervisor(state) == state.intent

\* state['messages'][-1].content
LastContent(msgs) == IF msgs = <<>> THEN NONE ELSE msgs[Len(msgs)].content

SupervisorAgent ==
  /\ UNCHANGED <<media, api, inbox, bot>>
  /\ pc = "supervisor"
  /\ LET u == turn.user
         t1 == [turn EXCEPT !.ran = Append(turn.ran, "supervisor"),
                            !.query = LastContent(ckpt[u].messages)]
     IN \/ \* the classifier chain raises
           /\ TurnError("supervisor")
           /\ turn' = t1
        \/ \E raw \in ClassifierOutputs :
             /\ ckpt' = [ckpt EXCEPT ![u].intent = FinalIntent(raw)]
             /\ pc' = RouteAfterSupervisor([ckpt[u] EXCEPT !.intent = FinalIntent(raw)])
             /\ turn' = [t1 EXCEPT !.classified = raw]
             /\ UNCHANGED res
  /\ UNCHANGED <<store, genCalls, nTurns, nDeletes>>

\* Answers of the general chain.
AnswerTexts == { <<"F", "o", "r", "m", " ", "A">>, <<"o", "k">> }

\* str(e) of the AttributeError line 493 raises: AgentServices.__init__ sets
\* llm_gemini, genai_client, checkpointer, store and workflow, and nothing
\* anywhere sets web_search_tool.
MissingToolError == <<"'AgentServices' object has no attribute 'web_search_tool'">>

\* Variant: the exception of the search call leaves the node.
WelfareSearchUncaught ==
  /\ UNCHANGED <<media, api, inbox, bot>>
  /\ pc = "welfare_search"
  /\ TurnError("welfare_search")
  /\ turn' = [turn EXCEPT !.ran = Append(turn.ran, "welfare_search"),
                          !.asked = LastContent(ckpt[turn.user].messages)]
  /\ UNCHANGED <<store, genCalls, nTurns, nDeletes>>

\* The search call raises inside the try on every run, so the node returns
\* the except branch's text and the summary chain is never reached.
WelfareSearch ==
  /\ UNCHANGED <<media, api, inbox, bot>>
  /\ pc = "welfare_search"
  /\ LET u == turn.user
     IN /\ ckpt' = [ckpt EXCEPT ![u].tool_output = SearchFailedPrefix \o MissingToolError]
        /\ turn' = [turn EXCEPT !.ran = Append(turn.ran, "welfare_search"),
                                !.asked = LastContent(ckpt[u].messages)]
        /\ pc' = "structure_final_response"
  /\ UNCHANGED <<store, res, genCalls, nTurns, nDeletes>>

GeneralQuery ==
  /\ UNCHANGED <<media, api, inbox, bot>>
  /\ pc = "general_query"
  /\ LET u == turn.user
         t1 == [turn EXCEPT !.ran = Append(turn.ran, "general_query"),
                            !.asked = LastContent(ckpt[u].messages)]
     IN \/ \* the chain raises
           /\ TurnError("general_query")
           /\ turn' = t1
        \/ \E a \in AnswerTexts :
             /\ ckpt' = [ckpt EXCEPT ![u].tool_output = a]
             /\ turn' = t1
             /\ pc' = "structure_final_response"
             /\ UNCHANGED res
  /\ UNCHANGED <<store, genCalls, nTurns, nDeletes>>

(* ---------------------- structure_final_response ---------------------- *)

\* Rewrites the normalizer chain returns; StrOutputParser gives '' for a
\* model message without text content.
RewriteTexts == { <<"s", "u", "r", "e">>, EmptyText }

\* Variant: the test is made on the text as it is, capitals included.
KeepsRawCaseSensitive(tool_output) == Contains(tool_output, <<"f", "o", "r", "m">>)

\* 'form' in tool_output.lower()
KeepsRaw(tool_output) == Contains(Lower(tool_output), <<"f", "o", "r", "m">>)

\* Variant: the normalizer returns its message and leaves the state's
\* final_response_text as it found it.
FinalResponseNodeMessageOnly(state, final_text) ==
  [state EXCEPT !.messages = <<AIMessage(final_text)>>]

\* The dict final_response_node returns, applied to the state: AgentState
\* declares messages without a reducer, so the returned list replaces it.
FinalResponseNode(state, final_text) ==
  [state EXCEPT !.messages = <<AIMessage(final_text)>>,
                !.final_response_text = final_text]

FinalResponse ==
  /\ UNCHANGED <<media, api, inbox, bot>>
  /\ pc = "structure_final_response"
  /\ LET u == turn.user
         t1 == [turn EXCEPT !.ran = Append(turn.ran, "structure_final_response")]
     IN IF KeepsRaw(ckpt[u].tool_output)
        THEN /\ ckpt' = [ckpt EXCEPT ![u] = FinalResponseNode(ckpt[u], ckpt[u].tool_output)]
             /\ turn' = [t1 EXCEPT !.norm = "kept"]
             /\ pc' = "end"
             /\ UNCHANGED res
        ELSE \/ \* the normalizer chain raises
                /\ TurnError("structure_final_response")
                /\ turn' = [t1 EXCEPT !.norm = "raised"]
             \/ \E r \in RewriteTexts :
                  /\ ckpt' = [ckpt EXCEPT ![u] = FinalResponseNode(ckpt[u], r)]
                  /\ turn' = [t1 EXCEPT !.norm = "rewritten"]
                  /\ pc' = "end"
                  /\ UNCHANGED res
  /\ UNCHANGED <<store, genCalls, nTurns, nDeletes>>

(* --------------------------- end of the turn -------------------------- *)

\* The last AIMessage's content, '' when there is none.
RECURSIVE LastAI(_)
LastAI(msgs) ==
  IF msgs = <<>> THEN EmptyText
  ELSE IF ~IsHuman(msgs[Len(msgs)]) THEN msgs[Len(msgs)].content
  ELSE LastAI(SubSeq(msgs, 1, Len(msgs) - 1))

\* ChatResponse built from result_state.  "backstory" is not a key of
\* AgentState, so the graph never carries it: result_state.get("backstory")
\* is None.
ChatResult(u, state, rec) ==
  [status |-> "ok",
   response |-> IF LastAI(state.messages) # EmptyText
                THEN LastAI(state.messages) ELSE SorryText,
   is_onboarding |-> state.is_onboarding,
   backstory |-> NONE,
   user_profile |-> IF state.user_profile_data # EmptyMap THEN state.user_profile_data
                    ELSE IF rec.present THEN StoredProfile(u, rec) ELSE EmptyMap]

\* The JSON the websocket sends back.
WsResult(state) ==
  [status |-> "ok",
   response |-> state.final_response_text,
   is_onboarding |-> state.is_onboarding,
   backstory |-> NONE,
   user_profile |-> EmptyMap]

Respond ==
  /\ UNCHANGED <<media, api, inbox, bot>>
  /\ pc = "end"
  /\ res' = IF turn.entry = "chat"
            THEN ChatResult(turn.user, ckpt[turn.user], store[turn.user])
            ELSE WsResult(ckpt[turn.user])
  /\ pc' = "idle"
  /\ UNCHANGED <<store, ckpt, turn, genCalls, nTurns, nDeletes>>

(* --------------------------- profile deletion ------------------------- *)

\* DELETE /user/{user_id}/profile for a stored profile.
DeleteUserProfile(u) ==
  /\ UNCHANGED <<media, api, inbox, bot>>
  /\ pc = "idle"
  /\ nDeletes < MaxDeletes
  /\ store[u].present
  /\ store' = [store EXCEPT ![u] = NoRecord]
  /\ nDeletes' = nDeletes + 1
  /\ turn' = NoTurn
  /\ res' = [NoResult EXCEPT !.status = "deleted"]
  /\ UNCHANGED <<ckpt, pc, genCalls, nTurns>>

(* ---------------------------- specification --------------------------- *)

Next ==
  \/ \E u \in Users, m \in Utterances : ChatEntry(u, m)
  \/ \E u \in Users, m \in Utterances : WsEntry(u, m)
  \/ CheckUserProfile
  \/ OnboardingStep
  \/ SupervisorAgent
  \/ WelfareSearch
  \/ GeneralQuery
  \/ FinalResponse
  \/ Respond
  \/ \E u \in Users : DeleteUserProfile(u)

Spec == Init /\ [][Next]_vars

TypeOK ==
  /\ pc \in {"idle", "check_user_profile", "onboarding_step", "supervisor",
             "welfare_search", "general_query", "structure_final_response", "end"}
  /\ nTurns \in 0..MaxTurns
  /\ \A u \in Users : store[u].present => DOMAIN store[u].fields = RequiredSet


\* The HTTP chat entry point alone (no websocket client).
NextChat ==
  \/ \E u \in Users, m \in Utterances : ChatEntry(u, m)
  \/ CheckUserProfile
  \/ OnboardingStep
  \/ SupervisorAgent
  \/ WelfareSearch
  \/ GeneralQuery
  \/ FinalResponse
  \/ Respond
  \/ \E u \in Users : DeleteUserProfile(u)

SpecChat == Init /\ [][NextChat]_vars

(* ---------------------- requests arriving at any time ----------------- *)

\* Chat requests that can wait for the event loop at one time.
MaxInbox == 2

\* A client posts to /chat at any moment, also while a turn is in progress:
\* the request waits until the event loop is free.
Arrive(u, m) ==
  /\ Len(inbox) < MaxInbox
  /\ nTurns < MaxTurns
  /\ inbox' = Append(inbox, [user_id |-> u, message |-> m])
  /\ nTurns' = nTurns + 1
  /\ UNCHANGED <<store, ckpt, pc, turn, res, genCalls, nDeletes, media, api, bot>>

\* The event loop starts the handler of the oldest waiting request:
\* chat_endpoint up to workflow.invoke.
Dispatch ==
  /\ LoopFree
  /\ inbox # <<>>
  /\ LET u == Head(inbox).user_id
         m == Head(inbox).message
     IN /\ ckpt' = [ckpt EXCEPT ![u] = ChatInput(ckpt[u], m)]
        /\ turn' = BeginTurn(u, "chat", m)
  /\ res' = NoResult
  /\ pc' = "check_user_profile"
  /\ inbox' = Tail(inbox)
  /\ UNCHANGED <<store, genCalls, nTurns, nDeletes, media, api, bot>>

NextLoop ==
  \/ \E u \in Users, m \in Utterances : Arrive(u, m)
  \/ Dispatch
  \/ CheckUserProfile
  \/ OnboardingStep
  \/ SupervisorAgent
  \/ WelfareSearch
  \/ GeneralQuery
  \/ FinalResponse
  \/ Respond

SpecLoop == Init /\ [][NextLoop]_vars

(* --------------------- parsing the generated backstory ---------------- *)

\* Longest output of the backstory chain, in tokens.
MaxRawLen == 4

\* Tokens of an output: the two labels, a line break, a word.
RawTokens == {"Backstory:", "Tagline:", "\n", "story"}

\* Outputs of the backstory chain.
ChainOutputs == UNION {[1..n -> RawTokens] : n \in 0..MaxRawLen}

\* The chain has returned an output for a user whose profile was saved; the
\* output is held as the utterance of the observation record.
InitBackstory ==
  /\ store = [u \in Ids |-> IF u = "u1"
                             THEN [present |-> TRUE,
                                   fields |-> [f \in RequiredSet |-> <<"a">>],
                                   backstory |-> NONE]
                             ELSE NoRecord]
  /\ ckpt = [u \in Ids |-> NoState]
  /\ pc = "onboarding_step"
  /\ \E out \in ChainOutputs : turn = [NoTurn EXCEPT !.utt = out, !.generated = TRUE]
  /\ res = NoResult
  /\ genCalls = [u \in Ids |-> IF u = "u1" THEN 1 ELSE 0]
  /\ nTurns = 0
  /\ nDeletes = 0
  /\ media = <<>>
  /\ api = NoRequest
  /\ inbox = <<>>
  /\ bot = NoBot

\* Lines 378-397: strip the output, parse it, store the text.
ParseAndStore ==
  /\ pc = "onboarding_step"
  /\ LET raw_backstory == StripText(turn.utt)
         backstory_text == BackstoryText(raw_backstory)
     IN /\ store' = [store EXCEPT ![turn.user] = SaveBackstory(@, backstory_text)]
        /\ turn' = [turn EXCEPT !.ran = <<"onboarding_step">>,
                                !.writes = <<"save_backstory">>,
                                !.backstory_text = backstory_text]
  /\ pc' = "end"
  /\ UNCHANGED <<ckpt, res, genCalls, nTurns, nDeletes, media, api, inbox, bot>>

NextBackstory == ParseAndStore

SpecBackstory == InitBackstory /\ [][NextBackstory]_vars

(* ------------------------- the store on its own ----------------------- *)

\* Profile dicts passed to save_user_profile: two with nine text values, one
\* whose years_experience is a number, one with an empty text and a None,
\* one without the key brand_style.
StoreProfiles ==
  { [f \in RequiredSet |-> <<"a">>],
    [f \in RequiredSet |-> <<"b">>],
    [f \in RequiredSet |-> IF f = "years_experience" THEN IntValue(<<"5">>) ELSE <<"a">>],
    [f \in RequiredSet |-> IF f = "name" THEN EmptyText
                           ELSE IF f = "state" THEN NONE ELSE <<"a">>],
    [f \in RequiredSet \ {"brand_style"} |-> <<"a">>] }

\* Texts passed to save_backstory.
StoreBackstories == { <<"story">>, <<"tale">> }

\* One call of a store method, recorded with its arguments and the row the
\* user had before it.
StoreCall(u, op, p, text) ==
  [NoTurn EXCEPT !.user = u, !.store0 = store[u], !.writes = <<op>>,
                 !.merged = p, !.backstory_text = text]

InitStore ==
  /\ store = [u \in Ids |-> NoRecord]
  /\ ckpt = [u \in Ids |-> NoState]
  /\ pc = "idle"
  /\ turn = NoTurn
  /\ res = NoResult
  /\ genCalls = [u \in Ids |-> 0]
  /\ nTurns = 0
  /\ nDeletes = 0
  /\ media = <<>>
  /\ api = NoRequest
  /\ inbox = <<>>
  /\ bot = NoBot

StoreSaveUserProfile(u, p) ==
  /\ store' = [store EXCEPT ![u] = SaveUserProfile(store[u], p)]
  /\ turn' = StoreCall(u, "save_user_profile", p, NONE)
  /\ UNCHANGED <<ckpt, pc, res, genCalls, nTurns, nDeletes, media, api, inbox, bot>>

StoreSaveBackstory(u, text) ==
  /\ store' = [store EXCEPT ![u] = SaveBackstory(store[u], text)]
  /\ turn' = StoreCall(u, "save_backstory", EmptyMap, text)
  /\ UNCHANGED <<ckpt, pc, res, genCalls, nTurns, nDeletes, media, api, inbox, bot>>

StoreDeleteUserProfile(u) ==
  /\ store' = [store EXCEPT ![u] = NoRecord]
  /\ turn' = StoreCall(u, "delete_user_profile", EmptyMap, NONE)
  /\ UNCHANGED <<ckpt, pc, res, genCalls, nTurns, nDeletes, media, api, inbox, bot>>

\* A read changes nothing in the table.
StoreGetUserProfile(u) ==
  /\ turn' = StoreCall(u, "get_user_profile", EmptyMap, NONE)
  /\ UNCHANGED <<store, ckpt, pc, res, genCalls, nTurns, nDeletes, media, api, inbox, bot>>

NextStore ==
  \/ \E u \in Users, p \in StoreProfiles : StoreSaveUserProfile(u, p)
  \/ \E u \in Users, text \in StoreBackstories : StoreSaveBackstory(u, text)
  \/ \E u \in Users : StoreDeleteUserProfile(u)
  \/ \E u \in Users : StoreGetUserProfile(u)

SpecStore == InitStore /\ [][NextStore]_vars

(* ---------------------------- REST endpoints -------------------------- *)

\* Chat requests accepted in a run of the REST specification.
MaxApiTurns == 1

\* Media records inserted in a run of the REST specification.
MaxMedia == 1

\* Identities of the requests: one user, the empty string and a blank string.
ApiIds == {"u1", "", " "}

\* Identities a path parameter can carry: the router does not match an empty
\* path segment, so '' never reaches a handler of /user/{user_id}/...
PathIds == ApiIds \ {""}

\* `not user_id or len(user_id.strip()) == 0`
InvalidId(id) == id = "" \/ Strip(id) = ""

\* A request answered without a workflow invocation.
Served(endpoint, id, code, detail) ==
  [endpoint |-> endpoint, id |-> id, code |-> code, detail |-> detail,
   invoked |-> FALSE]

\* Rows the profile table can hold when the server starts: none, a profile
\* without a backstory, a profile with one.  The checkpointer is in memory,
\* so the stored rows outlive the conversation states.
StartRecords ==
  { NoRecord,
    [present |-> TRUE, fields |-> [f \in RequiredSet |-> <<"a">>], backstory |-> NONE],
    [present |-> TRUE, fields |-> [f \in RequiredSet |-> <<"a">>],
     backstory |-> <<"story">>] }

InitApi ==
  /\ store \in {[u \in Ids |-> IF u = "u1" THEN r ELSE NoRecord] : r \in StartRecords}
  /\ ckpt = [u \in Ids |-> NoState]
  /\ pc = "idle"
  /\ turn = NoTurn
  /\ res = NoResult
  /\ genCalls = [u \in Ids |-> 0]
  /\ nTurns = 0
  /\ nDeletes = 0
  /\ media = <<>>
  /\ api = NoRequest
  /\ inbox = <<>>
  /\ bot = NoBot

\* POST /chat up to workflow.invoke: the identity of the request is used as
\* thread id and user_id without being examined.
ApiChat(id, m) ==
  /\ LoopFree
  /\ nTurns < MaxApiTurns
  /\ ckpt' = [ckpt EXCEPT ![id] = ChatInput(ckpt[id], m)]
  /\ turn' = BeginTurn(id, "chat", m)
  /\ res' = NoResult
  /\ pc' = "check_user_profile"
  /\ nTurns' = nTurns + 1
  /\ api' = [endpoint |-> "chat", id |-> id, code |-> 0, detail |-> "pending",
             invoked |-> TRUE]
  /\ UNCHANGED <<store, genCalls, nDeletes, media, inbox, bot>>

\* GET /user/{user_id}/profile
ApiGetUserProfile(id) ==
  /\ pc = "idle"
  /\ \E readOk \in BOOLEAN :
       api' = IF InvalidId(id)
              THEN Served("get_user_profile", id, 400, "Invalid user ID")
              ELSE IF ~readOk
              THEN Served("get_user_profile", id, 500, "Error retrieving profile")
              ELSE IF ~store[id].present
              THEN Served("get_user_profile", id, 404, "User profile not found")
              ELSE Served("get_user_profile", id, 200, "profile")
  /\ UNCHANGED <<store, ckpt, pc, turn, res, genCalls, nTurns, nDeletes, media, inbox, bot>>

\* GET /user/{user_id}/backstory
ApiGetUserBackstory(id) ==
  /\ pc = "idle"
  /\ \E readOk \in BOOLEAN :
       api' = IF InvalidId(id)
              THEN Served("get_user_backstory", id, 400, "Invalid user ID")
              ELSE IF ~readOk
              THEN Served("get_user_backstory", id, 500, "Error retrieving backstory")
              ELSE IF ~store[id].present
              THEN Served("get_user_backstory", id, 404, "User profile not found")
              ELSE IF Falsy(store[id].backstory)
              THEN Served("get_user_backstory", id, 404, "Backstory not found")
              ELSE Served("get_user_backstory", id, 200, "backstory")
  /\ UNCHANGED <<store, ckpt, pc, turn, res, genCalls, nTurns, nDeletes, media, inbox, bot>>

\* Variant: deleting a profile also deletes the user's media records.
MediaAfterDeleteCascading(m, id) == SelectSeq(m, LAMBDA r : r.user_id # id)

\* SQLiteStore.delete_user_profile deletes from user_profiles and from
\* conversations; user_generated_media is not touched.
MediaAfterDelete(m, id) == m

\* DELETE /user/{user_id}/profile
ApiDeleteUserProfile(id) ==
  /\ pc = "idle"
  /\ nDeletes < MaxDeletes
  /\ \E readOk \in BOOLEAN, deleteOk \in BOOLEAN :
       IF InvalidId(id)
       THEN /\ api' = Served("delete_user_profile", id, 400, "Invalid user ID")
            /\ UNCHANGED <<store, media, nDeletes>>
       ELSE IF ~readOk \/ (store[id].present /\ ~deleteOk)
       THEN /\ api' = Served("delete_user_profile", id, 500, "Error deleting profile")
            /\ UNCHANGED <<store, media, nDeletes>>
       ELSE IF ~store[id].present
       THEN /\ api' = Served("delete_user_profile", id, 404, "User profile not found")
            /\ UNCHANGED <<store, media, nDeletes>>
       ELSE /\ api' = Served("delete_user_profile", id, 200, "deleted")
            /\ store' = [store EXCEPT ![id] = NoRecord]
            /\ media' = MediaAfterDelete(media, id)
            /\ nDeletes' = nDeletes + 1
  /\ UNCHANGED <<ckpt, pc, turn, res, genCalls, nTurns, inbox, bot>>

\* SQLiteStore.get_user_media: the rows of one user.
UserMedia(m, id) == SelectSeq(m, LAMBDA r : r.user_id = id)

\* GET /user/{user_id}/media: the listing is a success for every identity
\* that passes the check, with count 0 when the user has no rows.
ApiGetUserMedia(id) ==
  /\ pc = "idle"
  /\ \E readOk \in BOOLEAN :
       api' = IF InvalidId(id)
              THEN Served("get_user_media", id, 400, "Invalid user ID")
              ELSE IF ~readOk
              THEN Served("get_user_media", id, 500, "Failed to fetch media")
              ELSE Served("get_user_media", id, 200,
                          IF Len(UserMedia(media, id)) = 0 THEN "count 0" ELSE "count 1+")
  /\ UNCHANGED <<store, ckpt, pc, turn, res, genCalls, nTurns, nDeletes, media, inbox, bot>>

PrimaryModel == "gemini-2.5-flash-image-preview"

AltModels == {"imagen-3.0-generate-001", "gemini-2.0-flash-exp"}

\* How the generation attempts of one request went: the first call returned;
\* it raised ClientError and a call with another location returned; those
\* failed too (or there is no project) and a call with an alternate model
\* returned; every call raised ClientError; a call raised another exception.
GenOutcomes == {"primary", "relocated", "alternate", "all_failed", "other_error"}

\* SQLiteStore.save_generated_media: INSERT of one row.
SaveGeneratedMedia(m, id, model, edited) ==
  Append(m, [rid |-> Len(m) + 1, user_id |-> id, model_used |-> model,
             edited |-> edited])

\* POST /image/edit
ApiEditImage(id) ==
  /\ pc = "idle"
  /\ Len(media) < MaxMedia
  /\ \/ /\ InvalidId(id)
        /\ api' = Served("edit_image", id, 400, "user_id is required")
        /\ UNCHANGED media
     \/ \* no file name in the upload
        /\ ~InvalidId(id)
        /\ api' = Served("edit_image", id, 400, "Image file is required")
        /\ UNCHANGED media
     \/ \* writing the upload to disk raises
        /\ ~InvalidId(id)
        /\ api' = Served("edit_image", id, 500, "Error editing image")
        /\ UNCHANGED media
     \/ \* no image model configured: the upload alone is recorded
        /\ ~InvalidId(id)
        /\ api' = Served("edit_image", id, 200, "model not configured")
        /\ \E saveOk \in BOOLEAN :
             media' = IF saveOk THEN SaveGeneratedMedia(media, id, "<None>", FALSE)
                      ELSE media
     \/ \* every call raised ClientError, or one raised another exception:
        \* resp is None and HTTPException(502) is raised inside the try of
        \* line 1585, whose `except Exception` answers with a 500
        /\ ~InvalidId(id)
        /\ api' = Served("edit_image", id, 500, "Image generation failed")
        /\ UNCHANGED media
     \/ \* a call returned a response without an image
        /\ ~InvalidId(id)
        /\ api' = Served("edit_image", id, 200, "No image found in model response")
        /\ UNCHANGED media
     \/ \* a call returned an image
        /\ ~InvalidId(id)
        /\ api' = Served("edit_image", id, 200, "Image edit completed")
        /\ \E g \in GenOutcomes \ {"all_failed", "other_error"}, saveOk \in BOOLEAN :
             \E model \in (IF g = "alternate" THEN AltModels ELSE {PrimaryModel}) :
               media' = IF saveOk THEN SaveGeneratedMedia(media, id, model, TRUE)
                        ELSE media
  /\ UNCHANGED <<store, ckpt, pc, turn, res, genCalls, nTurns, nDeletes, inbox, bot>>

NextApi ==
  \/ \E id \in ApiIds, m \in Utterances : ApiChat(id, m)
  \/ CheckUserProfile
  \/ OnboardingStep
  \/ SupervisorAgent
  \/ WelfareSearch
  \/ GeneralQuery
  \/ FinalResponse
  \/ Respond
  \/ \E id \in PathIds : ApiGetUserProfile(id)
  \/ \E id \in PathIds : ApiGetUserBackstory(id)
  \/ \E id \in PathIds : ApiDeleteUserProfile(id)
  \/ \E id \in PathIds : ApiGetUserMedia(id)
  \/ \E id \in ApiIds : ApiEditImage(id)

SpecApi == InitApi /\ [][NextApi]_vars


(* ------------------------------ properties ---------------------------- *)

\* A required field is absent from the profile or empty in it.
Lacks(p, f) == f \notin DOMAIN p \/ p[f] = EmptyText \/ p[f] = NONE

\* The order in which the fields are asked for.
FieldOrder ==
  << "name", "state", "craft_type", "materials", "years_experience",
     "sales_channels", "price_range", "languages", "brand_style" >>

FieldSet == {FieldOrder[i] : i \in 1..Len(FieldOrder)}

Incomplete(p) == \E f \in FieldSet : Lacks(p, f)

LacksOnly(p, f) == Lacks(p, f) /\ \A g \in FieldSet \ {f} : ~Lacks(p, g)

FirstLacking(p) ==
  FieldOrder[CHOOSE i \in 1..Len(FieldOrder) :
               /\ Lacks(p, FieldOrder[i])
               /\ \A j \in 1..(i - 1) : ~Lacks(p, FieldOrder[j])]

QuestionTexts == {FieldPrompt(f) : f \in FieldSet}

IsCompletionText(t) == IsPrefix(<<"Great! ">>, t)

\* The last turn ran to its end and the entry point answered.
TurnOk == pc = "idle" /\ res.status = "ok"

Ran(node) == \E i \in 1..Len(turn.ran) : turn.ran[i] = node

Wrote(w) == \E i \in 1..Len(turn.writes) : turn.writes[i] = w

\* The check step of the turn classified it as onboarding.
ClassifiedOnboarding == turn.read \in {"absent", "error"}

\* This turn's extraction (or numeric fallback) gave field f a non-empty value.
Yielded(f) == Ran("onboarding_step") /\ turn.ext.kind # "none" /\ ~Lacks(turn.merged, f)
              /\ (turn.ext.kind = "json" => f \in DOMAIN turn.ext.data)
              /\ (turn.ext.kind # "json" => Lacks(turn.before, f))

\* The messages the turn in progress added to the input state's history.
InputLen ==
  IF turn.entry = "chat" /\ turn.prior.exists THEN Len(turn.prior.messages) + 1 ELSE 1

EmittedByTurn ==
  LET msgs == ckpt[turn.user].messages
  IN {i \in (InputLen + 1)..Len(msgs) :
        msgs[i].content \in QuestionTexts \/ IsCompletionText(msgs[i].content)}

HasBackstory(rec) == rec.present /\ rec.backstory # NONE /\ rec.backstory # EmptyText

\* C1: the check step sets is_onboarding to FALSE exactly when the store read
\* returned a profile record for the user and to TRUE otherwise (no record, or
\* the read raised), whatever value the input state carried.
C1_CheckRederivesOnboarding ==
  [][(pc = "check_user_profile" /\ pc' # "check_user_profile")
       => (ckpt'[turn.user].is_onboarding = (turn'.read # "record"))]_vars

\* C1 witness: a thread that the previous turn left with is_onboarding = FALSE
\* is set to TRUE by the check step of a chat turn.
C1_Witness ==
  /\ pc = "onboarding_step"
  /\ turn.entry = "chat"
  /\ turn.prior.exists /\ ~turn.prior.is_onboarding
  /\ ckpt[turn.user].is_onboarding

\* C2: in every step, a user whose stored record carries a backstory gets no
\* further backstory chain invocation, and the stored backstory keeps its
\* value for as long as the record exists.
C2_BackstoryAtMostOnce ==
  [][\A u \in Users :
       HasBackstory(store[u])
         => /\ genCalls'[u] = genCalls[u]
            /\ (store'[u].present => store'[u].backstory = store[u].backstory)]_vars

C4_NextQuestionIsFirstMissing ==
  (TurnOk /\ Ran("onboarding_step") /\ Incomplete(turn.merged))
    => res.response = FieldPrompt(FirstLacking(turn.merged))

\* C4 witness: in a later turn of a conversation the extractor emptied the
\* name while years_experience is absent: the name question is asked again.
C4_Witness ==
  /\ TurnOk /\ Ran("onboarding_step")
  /\ turn.prior.exists
  /\ "name" \in DOMAIN turn.merged /\ turn.merged["name"] = EmptyText
  /\ "years_experience" \notin DOMAIN turn.merged
  /\ res.response = FieldPrompt("name")

\* C5: a new user (no stored profile, no conversation state) whose first
\* utterance yields no profile field is answered with the welcome text, with
\* is_onboarding = TRUE and an empty profile.
C5_WelcomeIsTheResponse ==
  (TurnOk /\ ~turn.prior.exists /\ turn.read = "absent"
     /\ Ran("onboarding_step") /\ turn.merged = EmptyMap)
    => /\ res.response = WelcomeText
       /\ res.is_onboarding
       /\ res.user_profile = EmptyMap

\* C6: while a user has no stored profile (the conversation is in onboarding),
\* every step keeps each populated required field of the partial profile at
\* its value, except the onboarding step whose extraction or numeric fallback
\* supplies a value for that field.
C6_PopulatedFieldsKept ==
  [][\A u \in Users : \A f \in FieldSet :
       (~store[u].present /\ ckpt[u].exists /\ ~Lacks(ckpt[u].user_profile_data, f))
         => \/ /\ f \in DOMAIN ckpt'[u].user_profile_data
               /\ ckpt'[u].user_profile_data[f] = ckpt[u].user_profile_data[f]
            \/ /\ pc = "onboarding_step" /\ turn.user = u
               /\ \/ turn'.ext.kind = "json" /\ f \in DOMAIN turn'.ext.data
                  \/ turn'.ext.kind \in {"raise", "nojson", "badjson"}
                       /\ f = "years_experience"]_vars

\* C7: an onboarding turn that leaves a required field absent or empty writes
\* nothing to the profile store, reports is_onboarding = TRUE and answers with
\* a field question.
C7_NoWriteBeforeCompletion ==
  (TurnOk /\ Ran("onboarding_step") /\ Incomplete(ckpt[turn.user].user_profile_data))
    => /\ turn.writes = <<>>
       /\ store[turn.user] = turn.store0
       /\ res.is_onboarding
       /\ res.response \in QuestionTexts

\* C7 witness: the turn's extraction supplied fields, and one is still lacking.
C7_Witness ==
  /\ TurnOk /\ Ran("onboarding_step")
  /\ turn.ext.kind = "json" /\ turn.ext.data # EmptyMap
  /\ turn.merged # turn.before
  /\ Incomplete(turn.merged)

\* C8: every entry point starts the turn from the state stored under the
\* conversation identity with only the new utterance appended, and from a
\* fresh state only when none is stored.
C8_EntryContinuesStoredState ==
  [][(pc = "idle" /\ pc' = "check_user_profile")
       => LET u == turn'.user
          IN IF ckpt[u].exists
             THEN ckpt'[u] = [ckpt[u] EXCEPT
                                !.messages = Append(@, HumanMessage(turn'.utt))]
             ELSE /\ ckpt'[u].messages = <<HumanMessage(turn'.utt)>>
                  /\ ckpt'[u].user_profile_data = EmptyMap]_vars

\* C9: within a conversation the message history only grows: every step
\* keeps the earlier messages in place and appends.
C9_MessagesOnlyGrow ==
  [][\A u \in Users :
       ckpt[u].exists => IsPrefix(ckpt[u].messages, ckpt'[u].messages)]_vars

\* C10: a turn the check step classifies as onboarding runs the onboarding
\* step once and ends: no router, handler or normalizer runs, and a turn that
\* ends without error added exactly one field question or completion message.
C10_OnboardingTurnEndsAfterOneStep ==
  ClassifiedOnboarding
    => /\ pc \in {"onboarding_step", "end", "idle"}
       /\ IsPrefix(turn.ran, <<"check_user_profile", "onboarding_step">>)
       /\ (pc = "onboarding_step" <=> turn.ran = <<"check_user_profile">>)
       /\ (pc = "end" \/ TurnOk) => Cardinality(EmittedByTurn) = 1

\* C10 witness: the turn on which the profile completes ended after the
\* onboarding step.
C10_Witness ==
  /\ TurnOk /\ ClassifiedOnboarding
  /\ turn.ran = <<"check_user_profile", "onboarding_step">>
  /\ ~res.is_onboarding
  /\ Wrote("save_user_profile")

\* The handler the graph runs for the intent the router stored.
HandlerFor(intent) ==
  IF intent = "welfare_search" THEN "welfare_search" ELSE "general_query"

\* The nodes of a turn that the check step classified as not onboarding.
QueryPath(intent) ==
  <<"check_user_profile", "supervisor", HandlerFor(intent), "structure_final_response">>

\* The check step of the turn ran and did not classify it as onboarding: it
\* found a stored profile, or it returned before reading the store.
ClassifiedNotOnboarding == turn.ran # <<>> /\ turn.read \in {"record", "none"}

\* C11: every turn starts at the check step; the step after it is the
\* onboarding step exactly when the state the check step leaves has
\* is_onboarding TRUE; and the nodes run by a turn classified as
\* not onboarding are, in order, the check step, the intent router, the
\* welfare-search handler if the stored intent is welfare_search and the
\* general-query handler otherwise, then the normalizer: a turn in progress
\* stands at the next node of that sequence, and a turn that reached its end
\* ran all four and nothing else.
C11_QueryTurnOrder ==
  /\ [](/\ (pc = "check_user_profile") <=> (pc # "idle" /\ turn.ran = <<>>)
        /\ turn.ran # <<>> => turn.ran[1] = "check_user_profile"
        /\ ClassifiedNotOnboarding =>
             LET path == QueryPath(ckpt[turn.user].intent)
                 n == Len(turn.ran)
             IN /\ IF n <= 2 THEN IsPrefix(turn.ran, <<"check_user_profile", "supervisor">>)
                             ELSE IsPrefix(turn.ran, path)
                /\ pc \notin {"idle", "end"} => pc = path[n + 1]
                /\ (pc = "end" \/ TurnOk) => turn.ran = path)
  /\ [][(pc = "check_user_profile" /\ pc' # pc)
         => /\ (pc' = "onboarding_step") <=> ckpt'[turn.user].is_onboarding
            /\ (pc' = "supervisor") <=> ~ckpt'[turn.user].is_onboarding]_vars

\* C11 witness: a turn of a user with a stored profile was classified
\* welfare_search and ran router, welfare-search handler and normalizer.
C11_Witness ==
  /\ TurnOk /\ ClassifiedNotOnboarding
  /\ ckpt[turn.user].intent = "welfare_search"
  /\ turn.ran = <<"check_user_profile", "supervisor", "welfare_search",
                  "structure_final_response">>

\* The substrings that make a classifier output a welfare search.
WelfareWords ==
  { <<"w", "e", "l", "f", "a", "r", "e">>,
    <<"s", "c", "h", "e", "m", "e">>,
    <<"b", "e", "n", "e", "f", "i", "t">> }

\* C12: once the router has returned, the stored intent is welfare_search or
\* general_query, and it is welfare_search exactly when the lower-cased
\* classifier output contains "welfare", "scheme" or "benefit".
C12_IntentMapping ==
  (Ran("supervisor") /\ turn.classified # NONE)
    => LET intent == ckpt[turn.user].intent
       IN /\ intent \in {"welfare_search", "general_query"}
          /\ (intent = "welfare_search")
               <=> \E w \in WelfareWords : Contains(Lower(turn.classified), w)

\* C12 witness: the classifier answered "Benefits", capitalised and in the
\* plural, and the turn was routed as a welfare search.
C12_Witness ==
  /\ TurnOk /\ Ran("welfare_search")
  /\ turn.classified = <<"B", "e", "n", "e", "f", "i", "t", "s">>
  /\ ckpt[turn.user].intent = "welfare_search"

\* The text reads "form" somewhere, in any mix of capitals.
MentionsForm(t) ==
  \E i \in 1..(Len(t) - 3) :
    /\ t[i] \in {"f", "F"} /\ t[i + 1] \in {"o", "O"}
    /\ t[i + 2] \in {"r", "R"} /\ t[i + 3] \in {"m", "M"}

\* C13: once the normalizer has run, it made no call of the language model
\* exactly when the handler's text contains "form" in any capitalisation;
\* then the final text is the handler's text as it is, and otherwise the final
\* text is what the language model returned for it.
C13_FormPassesThrough ==
  Ran("structure_final_response")
    => LET state == ckpt[turn.user]
       IN /\ (turn.norm = "kept") <=> MentionsForm(state.tool_output)
          /\ turn.norm \in {"kept", "rewritten", "raised"}
          /\ turn.norm = "kept" => state.final_response_text = state.tool_output
          /\ turn.norm = "rewritten" => state.final_response_text \in RewriteTexts

\* C13 witness: the general-query handler answered "Form A" and the turn's
\* response is that text.
C13_Witness ==
  /\ TurnOk /\ turn.norm = "kept"
  /\ ckpt[turn.user].tool_output = <<"F", "o", "r", "m", " ", "A">>
  /\ res.response = <<"F", "o", "r", "m", " ", "A">>

\* The node that ended the turn.
LastRan == IF turn.ran = <<>> THEN "none" ELSE turn.ran[Len(turn.ran)]

\* C14 as stated: a chat turn that ends without error answers with the
\* state's final_response_text.
C14_AsStated ==
  (TurnOk /\ turn.entry = "chat")
    => res.response = ckpt[turn.user].final_response_text

\* C14 amended: at the end of a turn that completes without error the node
\* that ended it is the onboarding step or the normalizer, final_response_text
\* is the content of the message that node produced, and the chat entry point
\* answers with that text, or with the fixed apology when that text is empty.
C14_FinalTextIsTheResponse ==
  TurnOk
    => LET state == ckpt[turn.user]
           text == state.final_response_text
           last == state.messages[Len(state.messages)]
       IN /\ LastRan \in {"onboarding_step", "structure_final_response"}
          /\ state.messages # <<>>
          /\ last.role = "ai" /\ last.content = text
          /\ LastRan = "onboarding_step"
               => /\ Len(state.messages) > InputLen
                  /\ text \in QuestionTexts \/ IsCompletionText(text)
          /\ LastRan = "structure_final_response"
               => /\ text \in RewriteTexts \cup {state.tool_output}
                  /\ turn.norm = "rewritten" => text \in RewriteTexts
          /\ turn.entry = "chat"
               => res.response = IF text = EmptyText THEN SorryText ELSE text

\* C14 witness: a chat turn of a thread that an earlier turn left with a
\* final_response_text ended in the normalizer with another text, which is
\* the response.
C14_Witness ==
  /\ TurnOk /\ turn.entry = "chat" /\ LastRan = "structure_final_response"
  /\ turn.prior.exists /\ turn.prior.final_response_text # EmptyText
  /\ ckpt[turn.user].final_response_text # turn.prior.final_response_text
  /\ ckpt[turn.user].final_response_text # EmptyText
  /\ res.response = ckpt[turn.user].final_response_text

\* The completion branch invoked the backstory chain and the chain or
\* save_backstory raised.
BackstoryFailed == turn.generated /\ ~Wrote("save_backstory")

\* C15: a completion turn whose backstory chain or backstory save raised does
\* not end in error; at its end the profile is stored with the merged values
\* and with the backstory it had before the turn, the response is the
\* completion message without the sentence about a backstory, is_onboarding is
\* FALSE and the result carries no backstory.
C15_BackstoryFailureTolerated ==
  BackstoryFailed
    => /\ pc \in {"end", "idle"}
       /\ pc = "idle" => res.status = "ok"
       /\ Wrote("save_user_profile")
       /\ store[turn.user].present
       /\ \A f \in FieldSet : store[turn.user].fields[f] = turn.merged[f]
       /\ store[turn.user].backstory
            = (IF turn.store0.present THEN turn.store0.backstory ELSE NONE)
       /\ ~ckpt[turn.user].is_onboarding
       /\ TurnOk => /\ res.response = <<"Great! ">> \o turn.merged["name"]
                                        \o <<", your artisan profile is set.">>
                    /\ ~res.is_onboarding
                    /\ res.backstory = NONE

\* C15 witness: a turn ended without error after its backstory generation
\* failed; the profile it completed is in the store without a backstory.
C15_Witness ==
  /\ TurnOk /\ BackstoryFailed
  /\ store[turn.user].present /\ ~HasBackstory(store[turn.user])
  /\ IsCompletionText(res.response)

\* C16: a check step whose store read raised does not end the turn: it sets
\* is_onboarding to TRUE, keeps the partial profile of the input state (no
\* stored profile is taken over) and hands the turn to the onboarding step,
\* which is the second node such a turn runs.
C16_ReadFailureDegradesToOnboarding ==
  /\ [][(pc = "check_user_profile" /\ turn'.read = "error")
         => /\ pc' = "onboarding_step"
            /\ res' = res
            /\ ckpt'[turn.user].is_onboarding
            /\ ckpt'[turn.user].user_profile_data = ckpt[turn.user].user_profile_data]_vars
  /\ [](turn.read = "error"
          => /\ pc \in {"onboarding_step", "end", "idle"}
             /\ IsPrefix(turn.ran, <<"check_user_profile", "onboarding_step">>))

\* C16 witness: the read raised for a user whose profile is stored; the turn
\* stands at the onboarding step with is_onboarding TRUE.
C16_Witness ==
  /\ pc = "onboarding_step" /\ turn.read = "error"
  /\ store[turn.user].present
  /\ ckpt[turn.user].is_onboarding

\* The onboarding step found every field populated and its profile save did
\* not return.
ProfileSaveFailed ==
  LastRan = "onboarding_step" /\ ~Incomplete(turn.merged) /\ ~Wrote("save_user_profile")

\* C17: a turn whose profile save raised ends in error: nothing is answered,
\* the store is as it was when the turn began and the conversation state is
\* still in onboarding; and a turn of the onboarding step that answers with
\* the completion message or with is_onboarding = FALSE has stored the profile
\* with the merged values.
C17_SaveFailurePropagates ==
  /\ ProfileSaveFailed
       => /\ pc = "idle" /\ res.status = "error"
          /\ res.response = EmptyText
          /\ store[turn.user] = turn.store0
          /\ ckpt[turn.user].is_onboarding
          /\ ckpt[turn.user].user_profile_data = turn.before
  /\ (TurnOk /\ LastRan = "onboarding_step"
        /\ (IsCompletionText(res.response) \/ ~res.is_onboarding))
       => /\ Wrote("save_user_profile")
          /\ store[turn.user].present
          /\ \A f \in FieldSet : store[turn.user].fields[f] = turn.merged[f]

\* C17 witness: the extraction completed the profile of a user without a
\* stored record, the save raised and the turn ended in error.
C17_Witness ==
  /\ ProfileSaveFailed
  /\ pc = "idle" /\ res.status = "error"
  /\ Incomplete(turn.before)
  /\ ~store[turn.user].present

\* C18: a turn whose last node was the intent router, the general-query
\* handler or the normalizer ended with an answer, whether or not the node's
\* language-model call raised.
C18_ModelFailureAnswered ==
  (pc = "idle" /\ res.status \in {"ok", "error"}
     /\ LastRan \in {"supervisor", "general_query", "structure_final_response"})
    => /\ res.status = "ok"
       /\ res.response # EmptyText

\* C19: the welfare-search handler, whose search call raises, never ends the
\* turn: every step of it stores a tool_output that begins with the fixed
\* search-failure text and hands the turn to the normalizer; a turn that ran
\* the handler and ended in error ended in a later node.
C19_SearchFailureBecomesText ==
  /\ [][pc = "welfare_search"
         => /\ pc' = "structure_final_response"
            /\ res' = res
            /\ IsPrefix(<<"Unable to search welfare schemes: ">>,
                        ckpt'[turn.user].tool_output)
            /\ Len(ckpt'[turn.user].tool_output) > 1]_vars
  /\ []((Ran("welfare_search") /\ pc = "idle" /\ res.status = "error")
          => LastRan = "structure_final_response")

\* C19 witness: a turn routed to the welfare search ended without error and
\* its handler text is the search-failure text followed by the error.
C19_Witness ==
  /\ TurnOk /\ Ran("welfare_search")
  /\ turn.ran[Len(turn.ran)] = "structure_final_response"
  /\ ckpt[turn.user].tool_output
       = <<"Unable to search welfare schemes: ",
           "'AgentServices' object has no attribute 'web_search_tool'">>

\* The extraction chain was invoked and raised, or its output had no {...}
\* match, or the match did not parse.
ExtractionFailed ==
  Ran("onboarding_step") /\ turn.ext.kind \in {"raise", "nojson", "badjson"}

\* C20: an onboarding step whose extraction failed does not end the turn in
\* error while a field is still lacking; and when the field the turn began
\* with as its first lacking one is not years_experience, the profile after
\* the step is the profile before it and the answer is that field's question.
C20_FailedExtractionKeepsProfile ==
  ExtractionFailed
    => /\ pc \in {"end", "idle"}
       /\ (pc = "idle" /\ Incomplete(turn.merged)) => res.status = "ok"
       /\ (Incomplete(turn.before) /\ FirstLacking(turn.before) # "years_experience")
            => /\ turn.merged = turn.before
               /\ ckpt[turn.user].user_profile_data = turn.before
               /\ TurnOk => res.response = FieldPrompt(FirstLacking(turn.before))

\* C21: an onboarding step whose extraction gave no parsed object changes the
\* profile only through the numeric fallback: every field other than
\* years_experience is as before, and the profile changes only when
\* years_experience was the first lacking field at the start of the turn, in
\* which case years_experience is the first digit sequence of the utterance.
C21_FallbackWritesOnlyYears ==
  ExtractionFailed
    => /\ \A f \in FieldSet \ {"years_experience"} :
            /\ (f \in DOMAIN turn.merged) <=> (f \in DOMAIN turn.before)
            /\ f \in DOMAIN turn.before => turn.merged[f] = turn.before[f]
       /\ turn.merged # turn.before
            => /\ Incomplete(turn.before)
               /\ FirstLacking(turn.before) = "years_experience"
               /\ turn.merged["years_experience"] = FirstNumber(turn.utt)

\* The identity is empty or consists of blanks.
BlankIdentity(id) == id \in {"", " "}

\* C22: every request served for an empty or blank identity was answered
\* with the client error 400 and without a workflow invocation.
C22_BlankIdentityRejected ==
  (api.endpoint # "none" /\ BlankIdentity(api.id))
    => /\ api.code = 400
       /\ ~api.invoked

\* The four requests about the stored data of one identity.
RecordEndpoints ==
  {"get_user_profile", "get_user_backstory", "delete_user_profile", "get_user_media"}

\* The request just answered named a well-formed identity that has neither
\* a profile record nor a media record, and the store answered its reads.
UnknownIdentityServed ==
  /\ api' # api
  /\ api'.endpoint \in RecordEndpoints
  /\ ~InvalidId(api'.id)
  /\ ~store[api'.id].present
  /\ UserMedia(media, api'.id) = <<>>
  /\ api'.code # 500

\* C23: a profile fetch, backstory fetch, profile delete or media listing
\* for an identity with no stored record is answered with the not-found
\* outcome (404), not with a success, whenever the store itself answers.
C23_UnknownIdentityNotFound ==
  [][UnknownIdentityServed => api'.code = 404]_vars

\* The last store call was save_user_profile(user, p) with the nine required
\* keys in p.
SavedNine ==
  /\ turn.writes = <<"save_user_profile">>
  /\ RequiredSet \subseteq DOMAIN turn.merged

\* get_user_profile(user) returns a record with the nine values of p.
ReadsBack ==
  /\ store[turn.user].present
  /\ \A f \in RequiredSet : StoredProfile(turn.user, store[turn.user])[f] = turn.merged[f]

\* The values of the nine required fields of p are texts or None.
TextValued(p) == \A f \in RequiredSet : f \in DOMAIN p /\ ~(p[f] # <<>> /\ p[f][1] = "<int>")

\* C24 as stated: after save_user_profile(user_id, p) with the nine required
\* fields in p, get_user_profile(user_id) returns a record whose nine
\* required fields equal those of p.
C24_AsStated == SavedNine => ReadsBack

\* C24: after save_user_profile(user_id, p) for a p whose nine required
\* values are texts or None, get_user_profile(user_id) returns a record
\* whose nine required fields equal those of p, whether the row was inserted
\* or updated.
C24_SaveThenGetRoundTrip == (SavedNine /\ TextValued(turn.merged)) => ReadsBack

\* C24 witness: a row that existed with other values was updated with nine
\* text values.
C24_Witness ==
  /\ SavedNine /\ TextValued(turn.merged)
  /\ turn.store0.present
  /\ \E f \in RequiredSet : turn.store0.fields[f] # turn.merged[f]

\* C25: no step updates or removes a media record: the table after a step is
\* the table before it, followed by the records the step inserted, so the
\* records of a user never become fewer and a record never changes.
C25_MediaAppendOnly ==
  [][/\ IsPrefix(media, media')
     /\ \A id \in ApiIds : IsPrefix(UserMedia(media, id), UserMedia(media', id))]_vars

\* C25 witness: the profile of a user was deleted and the media record
\* inserted for that user before is still listed.
C25_Witness ==
  /\ api.endpoint = "delete_user_profile" /\ api.code = 200
  /\ ~store[api.id].present
  /\ UserMedia(media, api.id) # <<>>

\* C26: the result of a finished turn carries a backstory exactly when the
\* turn completed the profile, generated a backstory and save_backstory
\* stored it, and then it is the stored text; the result of every other
\* turn carries none.
C26_ResultCarriesGeneratedBackstory ==
  TurnOk =>
    IF Wrote("save_backstory")
    THEN res.backstory = turn.backstory_text /\ res.backstory # NONE
    ELSE res.backstory = NONE

\* The profile data the checkpointer holds for a user.
Partial(c, u) == c[u].user_profile_data

Called(op, u) == turn'.writes = <<op>> /\ turn'.user = u

\* C28: save_user_profile for a user with a stored row leaves the backstory
\* of the row as it was; a stored backstory changes only when save_backstory
\* writes its text to it or delete_user_profile removes the row.
C28_BackstoryKeptBySave ==
  [][\A u \in Users :
       /\ (Called("save_user_profile", u) /\ store[u].present)
            => store'[u].backstory = store[u].backstory
       /\ store'[u].backstory # store[u].backstory
            => \/ Called("save_backstory", u) /\ store'[u].backstory = turn'.backstory_text
               \/ Called("delete_user_profile", u) /\ ~store'[u].present]_vars

\* C28 witness: a row with a backstory was saved with other field values
\* and still has that backstory.
C28_Witness ==
  /\ turn.writes = <<"save_user_profile">>
  /\ turn.store0.present /\ turn.store0.backstory # NONE
  /\ store[turn.user].fields # turn.store0.fields
  /\ store[turn.user].backstory = turn.store0.backstory

\* The failure text of a handler that found no search capability in the
\* services registry.
NoCapabilityText ==
  <<"Unable to search welfare schemes: ">>
    \o <<"'AgentServices' object has no attribute 'web_search_tool'">>

\* C29: on a welfare_search turn the handler invokes the search capability
\* of the services registry and hands its results to the summarizer, so the
\* tool_output it leaves is never the failure text of a registry that
\* provides no search capability.
C29_SearchCapabilityInvoked ==
  Ran("welfare_search") => ckpt[turn.user].tool_output # NoCapabilityText

\* The output, stripped, carries the label somewhere.
HasLabel(t, label) == \E i \in 1..Len(t) : t[i] = label

\* The output as the parser sees it: without the whitespace around it.
Stripped(t) ==
  IF \A i \in 1..Len(t) : t[i] = "\n" THEN <<>>
  ELSE LET first == CHOOSE i \in 1..Len(t) : t[i] # "\n" /\ \A j \in 1..(i - 1) : t[j] = "\n"
           last == CHOOSE i \in 1..Len(t) : t[i] # "\n" /\ \A j \in (i + 1)..Len(t) : t[j] = "\n"
       IN SubSeq(t, first, last)

\* C30: parsing the generated text never fails, and when the text has no
\* Backstory label the text stored as the backstory is the whole text.
C30_WholeTextWithoutLabel ==
  (pc = "end" /\ turn.writes = <<"save_backstory">>) =>
    /\ store[turn.user].backstory = turn.backstory_text
    /\ ~HasLabel(turn.utt, "Backstory:") => turn.backstory_text = Stripped(turn.utt)

\* C31: every row of the profile table has the nine required fields, each
\* with a non-empty value: a row is written only by the completion branch of
\* the onboarding step, which saves a profile that lacks nothing.
C31_StoredRecordsComplete ==
  /\ [](\A u \in Users : store[u].present =>
          \A f \in FieldSet : ~Lacks(store[u].fields, f))
  /\ [][\A u \in Users :
          (store'[u].present /\ store'[u].fields # store[u].fields)
            => /\ pc = "onboarding_step" /\ turn.user = u
               /\ Wrote("save_user_profile")']_vars

\* C31 witness: a turn completed a profile and its row is stored.
C31_Witness ==
  /\ TurnOk /\ Wrote("save_user_profile")
  /\ store[turn.user].present
  /\ \A f \in FieldSet : ~Lacks(store[turn.user].fields, f)

\* The turn began for an identity whose row had been deleted: the table had
\* no row for it, while the checkpoint still held the complete profile of
\* the turn that had stored the row.
BeganAfterDeletion ==
  /\ turn.entry # "none"
  /\ ~turn.store0.present
  /\ turn.prior.exists /\ ~Incomplete(turn.prior.user_profile_data)

\* C32: the first turn of an identity after its profile was deleted is an
\* onboarding turn that ends with is_onboarding TRUE, and it stores neither a
\* profile nor a backstory from what the checkpoint retained.
C32_DeletedProfileStaysDeleted ==
  (TurnOk /\ BeganAfterDeletion) =>
    /\ res.is_onboarding
    /\ ~store[turn.user].present
    /\ ~Wrote("save_user_profile") /\ ~Wrote("save_backstory")

\* The sentence of the completion message about the backstory.
CraftedSentence == <<" I've also crafted your brand backstory. You can fetch it anytime.">>

\* The completion message without that sentence, for the name of the
\* profile the turn completed.
BaseSentence == <<"Great! ">> \o turn.merged["name"] \o <<", your artisan profile is set.">>

\* C33: the answer of a completion turn is the base completion message
\* followed by the sentence about the backstory exactly when the turn
\* generated a backstory and save_backstory returned; when the row already
\* had a backstory, or the generation or the save failed, the answer is the
\* base completion message alone.
C33_MessageMentionsSavedBackstory ==
  (TurnOk /\ Wrote("save_user_profile")) =>
    IF turn.generated /\ Wrote("save_backstory")
    THEN res.response = BaseSentence \o CraftedSentence
    ELSE res.response = BaseSentence

\* C33 witness: a completion turn of a user whose row already had a
\* backstory answered with the base message alone.
C33_Witness ==
  /\ TurnOk /\ Wrote("save_user_profile")
  /\ turn.store0.present /\ turn.store0.backstory # NONE
  /\ ~turn.generated
  /\ res.response = BaseSentence

\* The utterance of the turn contains a digit.
HasDigits(t) == \E i \in 1..Len(t) : t[i] \in {"0", "1", "2", "3", "4", "5", "6", "7", "8", "9"}

\* C34: when the extraction of an onboarding step gave no parsed object and
\* the reply contains digits, years_experience becomes the first digit
\* sequence of the reply if years_experience is the field the question
\* logic treats as the first missing one, and the fallback writes nothing if
\* that field is another one.
C34_FallbackTargetsAskedField ==
  (ExtractionFailed /\ HasDigits(turn.utt) /\ Incomplete(turn.before))
    => IF FirstLacking(turn.before) = "years_experience"
       THEN /\ "years_experience" \in DOMAIN turn.merged
            /\ turn.merged["years_experience"] = FirstNumber(turn.utt)
       ELSE turn.merged = turn.before

\* The turn stands at, or has passed, the intent router on the query path.
AtQueryNode == pc \in {"supervisor", "welfare_search", "general_query"}

\* C35: on a turn that takes the query path, the last element of messages
\* while the router and the handler run is the human message with the
\* utterance of this turn, the query the router classified is that
\* utterance and so is the query the handler was given.
C35_QueryIsCurrentUtterance ==
  /\ AtQueryNode =>
       LET msgs == ckpt[turn.user].messages
       IN /\ msgs # <<>>
          /\ msgs[Len(msgs)] = [role |-> "human", content |-> turn.utt]
  /\ Ran("supervisor") => turn.query = turn.utt
  /\ (Ran("welfare_search") \/ Ran("general_query")) => turn.asked = turn.utt

\* C35 witness: a chat turn that followed an answered turn, so that the
\* stored messages ended with an assistant message, was classified and
\* handled with its own utterance.
C35_Witness ==
  /\ TurnOk /\ turn.entry = "chat"
  /\ turn.prior.messages # <<>>
  /\ turn.prior.messages[Len(turn.prior.messages)].role = "ai"
  /\ Ran("general_query")
  /\ turn.query = turn.utt /\ turn.asked = turn.utt


(* ------------------- Telegram bot (src/telegram/main.py) --------------- *)
(* One user's conversation with the bot.  python-telegram-bot handles the  *)
(* updates of a conversation one after the other, so each handler is one   *)
(* step.  bot.state is the ConversationHandler state ("END" when there is  *)
(* no conversation), bot.user_data is context.user_data; the other fields  *)
(* record what the last handler did: the update it got, the chat backend's *)
(* reply if it asked, the last text it sent, the requests made so far.     *)
(* Delivery of the bot's own messages to Telegram is taken to succeed.     *)

\* Requests to the chat backend over the whole run.
MaxBackendCalls == 3

\* Pages of a generated story.
MaxPages == 2

\* States in which the answer may be typed or spoken.
AnswerStates ==
  {"ONBOARDING_QUESTIONS", "STORY_AWAITING_PRODUCT", "STORY_AWAITING_HISTORY",
   "STORY_AWAITING_MAKING", "STORY_AWAITING_ARTISAN"}

\* A typed message: Telegram text is never empty.
TextUpdates == {[kind |-> "text", text |-> t, heard |-> "none"] : t \in {<<"clay">>}}

\* A voice message has no text; speech recognition raises ("error"), returns
\* no result ("nothing"), an empty transcript ("empty") or words.
VoiceUpdates ==
  {[kind |-> "voice", text |-> NONE, heard |-> h] :
     h \in {"error", "nothing", "empty", "words"}}

AnswerUpdates == TextUpdates \cup VoiceUpdates

\* The user id typed in the two id states (filters.TEXT only).
IdUpdates == {[kind |-> "text", text |-> <<u>>, heard |-> "none"] : u \in Users}

Choice(c) == [kind |-> "text", text |-> <<c>>, heard |-> "none"]

Command(c) == [kind |-> "command", text |-> <<c>>, heard |-> "none"]

\* transcribe_voice: None without a voice, on an exception and without a
\* result, the first alternative's transcript otherwise.
TranscribeVoice(update) ==
  IF update.kind # "voice" THEN NONE
  ELSE CASE update.heard = "words" -> <<"clay">>
         [] update.heard = "empty" -> EmptyText
         [] OTHER -> NONE

\* The last message transcribe_voice sends, if it runs on a voice message.
VoiceNotice(update, sent) ==
  IF update.kind # "voice" \/ ~Falsy(update.text) THEN sent
  ELSE CASE update.heard = "error" ->
              <<"Sorry, there was an error processing your voice message.">>
         [] update.heard = "nothing" -> <<"Sorry, I couldn't understand the audio.">>
         [] OTHER -> <<"Processing your voice message...">>

\* answer = update.message.text or await transcribe_voice(update, context)
Answer(update) ==
  IF ~Falsy(update.text) THEN update.text ELSE TranscribeVoice(update)

\* Variant: only a missing answer counts (`if answer is None`).
NotAnswerNoneOnly(answer) == answer = NONE

\* `if not answer`
NotAnswer(answer) == Falsy(answer)

\* Replies of POST /chat as the bot sees them: a requests.RequestException
\* (connection error, error status, undecodable body) or a JSON object with
\* the reply text and the flag true, false or left out.
BackendReplies ==
  {[ok |-> "error", response |-> NONE, is_onboarding |-> "absent"]} \cup
  {[ok |-> "yes", response |-> q, is_onboarding |-> f] :
     q \in {<<"What is your name?">>, <<"Where do you live?">>},
     f \in {"true", "false", "absent"}}

\* Variant: a left-out flag read as false (`.get("is_onboarding")`).
StillOnboardingDefaultFalse(api_response) == api_response.is_onboarding = "true"

\* api_response.get("is_onboarding", True)
StillOnboarding(api_response) == api_response.is_onboarding # "false"

\* d[k] = v on a dict.
SetItem(d, k, v) == [x \in DOMAIN d \cup {k} |-> IF x = k THEN v ELSE d[x]]

\* The fields that record the handler, its update and the backend's reply.
Handled(b, handler, update, api_response) ==
  [b EXCEPT !.handler = handler, !.update = update, !.reply = api_response]

\* context.user_data.clear(); return ConversationHandler.END
EndConversation(b, how) ==
  [b EXCEPT !.state = "END", !.ended = how, !.user_data = EmptyMap]

backendVars ==
  <<store, ckpt, pc, turn, res, genCalls, nTurns, nDeletes, media, api, inbox>>

\* /start, the conversation's entry point.
Start ==
  /\ bot.state = "END"
  /\ bot' = [Handled(bot, "start", Command("/start"), NoReply) EXCEPT
               !.state = "SELECTING_LANGUAGE",
               !.sent = <<"Welcome! Please select your language.">>,
               !.ended = "none", !.generation = "none",
               !.inputs = EmptyMap, !.pages = 0, !.delivered = <<>>]
  /\ UNCHANGED backendVars

\* The state's Regex filter lets only the offered languages through.
handle_language_selection(choice) ==
  /\ bot.state = "SELECTING_LANGUAGE"
  /\ LET code == IF choice = "English" THEN <<"en-US">> ELSE <<"hi-IN">>
         lang == IF choice = "English" THEN <<"en">> ELSE <<"hi">>
     IN bot' = [Handled(bot, "handle_language_selection", Choice(choice), NoReply)
                  EXCEPT !.user_data = SetItem(SetItem(@, "language_code", code),
                                               "target_language", lang),
                         !.sent = <<"Great! What would you like to do?">>,
                         !.state = "SELECTING_ACTION"]
  /\ UNCHANGED backendVars

\* The state's Regex filter lets only the two offered actions through.
handle_action_selection(user_choice) ==
  /\ bot.state = "SELECTING_ACTION"
  /\ bot' = [Handled(bot, "handle_action_selection", Choice(user_choice), NoReply)
               EXCEPT !.sent = IF user_choice = "Complete Onboarding Form"
                                 THEN <<"Starting onboarding. First, please provide your User ID.">>
                                 ELSE <<"Let's create a story! First, please provide your User ID.">>,
                      !.state = IF user_choice = "Complete Onboarding Form"
                                  THEN "AWAITING_ONBOARDING_ID"
                                  ELSE "STORY_AWAITING_USER_ID"]
  /\ UNCHANGED backendVars

\* The first reply's is_onboarding flag is not read: with a successful reply
\* the conversation enters the question loop whatever the flag says.
get_onboarding_id(update, api_response) ==
  /\ bot.state = "AWAITING_ONBOARDING_ID"
  /\ bot.calls < MaxBackendCalls
  /\ LET b == [Handled(bot, "get_onboarding_id", update, api_response) EXCEPT
                 !.user_data = SetItem(@, "onboarding_user_id", update.text),
                 !.calls = @ + 1]
     IN IF api_response.ok = "yes"
          THEN bot' = [b EXCEPT
                         !.user_data = SetItem(@, "last_question", api_response.response),
                         !.sent = api_response.response,
                         !.state = "ONBOARDING_QUESTIONS"]
          ELSE bot' = [b EXCEPT
                         !.sent = <<"Could not start onboarding. Please /cancel and try again.">>,
                         !.state = "END", !.ended = "request_error"]
  /\ UNCHANGED backendVars

handle_onboarding_questions(update, api_response) ==
  /\ bot.state = "ONBOARDING_QUESTIONS"
  /\ LET answer == Answer(update)
         last_question == Get(bot.user_data, "last_question")
     IN IF NotAnswer(answer)
          THEN bot' = [Handled(bot, "handle_onboarding_questions", update, NoReply)
                         EXCEPT !.sent = IF ~Falsy(last_question)
                                           THEN <<"Let's try that again.">> \o last_question
                                           ELSE VoiceNotice(update, @)]
          ELSE /\ bot.calls < MaxBackendCalls
               /\ LET b == [Handled(bot, "handle_onboarding_questions", update,
                                    api_response) EXCEPT !.calls = @ + 1]
                      next_question == api_response.response
                  IN CASE api_response.ok # "yes" ->
                            bot' = [b EXCEPT
                                      !.sent = <<"Error processing your answer. Please /cancel and try again.">>,
                                      !.state = "END", !.ended = "request_error"]
                       [] api_response.ok = "yes" /\ ~StillOnboarding(api_response) ->
                            bot' = EndConversation(
                                     [b EXCEPT !.sent = next_question \o
                                                        <<"Onboarding complete!">>],
                                     "onboarding_complete")
                       [] OTHER ->
                            bot' = [b EXCEPT
                                      !.user_data = SetItem(@, "last_question", next_question),
                                      !.sent = next_question]
  /\ UNCHANGED backendVars

get_storybook_user_id(update) ==
  /\ bot.state = "STORY_AWAITING_USER_ID"
  /\ bot' = [Handled(bot, "get_storybook_user_id", update, NoReply) EXCEPT
               !.user_data = SetItem(SetItem(@, "story_user_id", update.text),
                                     "story_inputs", EmptyMap),
               !.sent = <<"Thank you. First, what is the name of the product or craft?">>,
               !.state = "STORY_AWAITING_PRODUCT"]
  /\ UNCHANGED backendVars

\* The common body of get_storybook_product, _history and _making.
StoreStoryInput(handler, here, key, prompt, next, update) ==
  /\ bot.state = here
  /\ LET answer == Answer(update)
         b == Handled(bot, handler, update, NoReply)
     IN IF NotAnswer(answer)
          THEN bot' = [b EXCEPT !.sent = VoiceNotice(update, @)]
          ELSE bot' = [b EXCEPT
                         !.user_data = SetItem(@, "story_inputs",
                                               SetItem(@["story_inputs"], key, answer)),
                         !.sent = prompt,
                         !.state = next]
  /\ UNCHANGED backendVars

get_storybook_product(update) ==
  StoreStoryInput("get_storybook_product", "STORY_AWAITING_PRODUCT", "product",
                  <<"Got it. Now, tell me about the history of this craft.">>,
                  "STORY_AWAITING_HISTORY", update)

get_storybook_history(update) ==
  StoreStoryInput("get_storybook_history", "STORY_AWAITING_HISTORY", "history",
                  <<"Wonderful. Next, briefly describe how it's made.">>,
                  "STORY_AWAITING_MAKING", update)

get_storybook_making(update) ==
  StoreStoryInput("get_storybook_making", "STORY_AWAITING_MAKING", "making",
                  <<"Almost done. Finally, tell me about the artisan.">>,
                  "STORY_AWAITING_ARTISAN", update)

\* Variant: a page without an image is skipped.
DeliveriesPhotosOnly(n, images) ==
  SelectSeq([i \in 1..n |-> IF images[i] THEN "photo" ELSE "text"],
            LAMBDA d : d = "photo")

\* How each page reaches the user: as a captioned photo when
\* generate_storybook_image returned bytes, as text when it returned None.
Deliveries(n, images) == [i \in 1..n |-> IF images[i] THEN "photo" ELSE "text"]

\* generate_storybook_text returns None (no key, a failed call, an
\* undecodable answer) or the list of pages, which may be empty;
\* images[i] says whether generate_storybook_image produced page i's image.
\* The pages are JSON objects, as the prompt asks for.
get_storybook_artisan_and_generate(update, text_ok, n, images) ==
  /\ bot.state = "STORY_AWAITING_ARTISAN"
  /\ LET answer == Answer(update)
         b == Handled(bot, "get_storybook_artisan_and_generate", update, NoReply)
     IN IF NotAnswer(answer)
          THEN bot' = [b EXCEPT !.sent = VoiceNotice(update, @)]
          ELSE LET story_inputs == SetItem(bot.user_data["story_inputs"],
                                           "artisan", answer)
                   story_pages == text_ok /\ n > 0
               IN bot' = EndConversation(
                           [b EXCEPT
                              !.inputs = story_inputs,
                              !.generation = IF ~text_ok THEN "no_text"
                                             ELSE IF n = 0 THEN "no_pages"
                                             ELSE "pages",
                              !.pages = IF story_pages THEN n ELSE 0,
                              !.delivered = IF story_pages
                                              THEN Deliveries(n, images) ELSE <<>>,
                              !.sent = IF story_pages
                                         THEN <<"Your storybook is complete!">>
                                         ELSE VoiceNotice(update, @)],
                           "storybook")
  /\ UNCHANGED backendVars

\* /cancel, the conversation's fallback.
cancel ==
  /\ bot.state # "END"
  /\ bot' = EndConversation(
              [Handled(bot, "cancel", Command("/cancel"), NoReply) EXCEPT
                 !.sent = <<"Process canceled. Type /start to begin again.">>],
              "cancel")
  /\ UNCHANGED backendVars

NextTelegram ==
  \/ Start
  \/ \E choice \in {"English", "hindi"} : handle_language_selection(choice)
  \/ \E user_choice \in {"Complete Onboarding Form", "Create a Storybook"} :
       handle_action_selection(user_choice)
  \/ \E update \in IdUpdates, api_response \in BackendReplies :
       get_onboarding_id(update, api_response)
  \/ \E update \in AnswerUpdates, api_response \in BackendReplies :
       handle_onboarding_questions(update, api_response)
  \/ \E update \in IdUpdates : get_storybook_user_id(update)
  \/ \E update \in AnswerUpdates : get_storybook_product(update)
  \/ \E update \in AnswerUpdates : get_storybook_history(update)
  \/ \E update \in AnswerUpdates : get_storybook_making(update)
  \/ \E update \in AnswerUpdates, text_ok \in BOOLEAN, n \in 0..MaxPages :
       \E images \in [1..n -> BOOLEAN] :
         get_storybook_artisan_and_generate(update, text_ok, n, images)
  \/ cancel

InitTelegram == Init

SpecTelegram == InitTelegram /\ [][NextTelegram]_vars


(* ------------------------- claims on the bot --------------------------- *)

\* The last handler was the onboarding loop's and the backend answered it.
LoopReplied ==
  bot.handler = "handle_onboarding_questions" /\ bot.reply.ok = "yes"

\* C36: in the Telegram onboarding loop, after a successful backend reply the
\* conversation ends exactly when the reply reports is_onboarding = false;
\* when the reply reports true or leaves the flag out, the bot stays in
\* ONBOARDING_QUESTIONS, relays the backend's question and records it as
\* last_question.
C36_LoopEndsOnFalseFlag ==
  LoopReplied =>
    /\ bot.state = "END" <=> bot.reply.is_onboarding = "false"
    /\ bot.reply.is_onboarding # "false" =>
         /\ bot.state = "ONBOARDING_QUESTIONS"
         /\ bot.sent = bot.reply.response
         /\ Get(bot.user_data, "last_question") = bot.reply.response

\* A spoken answer got a reply without the flag and the loop went on with the
\* new question.
C36_Witness ==
  /\ LoopReplied
  /\ bot.update.kind = "voice"
  /\ bot.reply.is_onboarding = "absent"
  /\ bot.state = "ONBOARDING_QUESTIONS"
  /\ Get(bot.user_data, "last_question") = <<"Where do you live?">>
  /\ bot.calls = 2

\* A voice message from which no words came out.
NothingHeard(update) ==
  update.kind = "voice" /\ update.heard \in {"error", "nothing", "empty"}

\* C37: in every state that accepts a typed or spoken answer (the onboarding
\* questions and the four storybook questions) an empty or untranscribable
\* answer leaves the conversation in the same state, stores nothing in
\* user_data and makes no backend call.
C37_EmptyAnswerChangesNothing ==
  [][(/\ bot' # bot
      /\ bot.state \in AnswerStates
      /\ bot'.handler # "cancel"
      /\ NothingHeard(bot'.update))
     => /\ bot'.state = bot.state
        /\ bot'.user_data = bot.user_data
        /\ bot'.calls = bot.calls
        /\ bot'.reply = NoReply
        /\ bot'.generation = bot.generation]_vars

\* An empty transcript came in while the history was awaited, after the
\* product had been stored.
C37_Witness ==
  /\ bot.state = "STORY_AWAITING_HISTORY"
  /\ bot.handler = "get_storybook_history"
  /\ bot.update.heard = "empty"
  /\ DOMAIN bot.user_data["story_inputs"] = {"product"}


\* The storybook states in the order of their questions.
StoryOrder ==
  <<"STORY_AWAITING_USER_ID", "STORY_AWAITING_PRODUCT", "STORY_AWAITING_HISTORY",
    "STORY_AWAITING_MAKING", "STORY_AWAITING_ARTISAN">>

\* The inputs user_data holds when the i-th storybook state is waiting.
StoredBefore(i) ==
  CASE i = 1 -> {}
    [] i = 2 -> {}
    [] i = 3 -> {"product"}
    [] i = 4 -> {"product", "history"}
    [] OTHER -> {"product", "history", "making"}

\* In a storybook state past the first, the user id and exactly the inputs
\* asked for so far are stored.
StoryInputsInOrder ==
  \A i \in 2..5 :
    bot.state = StoryOrder[i] =>
      /\ {"story_user_id", "story_inputs"} \subseteq DOMAIN bot.user_data
      /\ DOMAIN bot.user_data["story_inputs"] = StoredBefore(i)
      /\ \A k \in StoredBefore(i) : ~Falsy(bot.user_data["story_inputs"][k])

\* A storybook state is entered only from the state before it and left only
\* for the state after it or for the end of the conversation.
StoryStepsInOrder ==
  \A i \in 1..5 :
    /\ (bot'.state = StoryOrder[i] /\ bot.state # StoryOrder[i]) =>
         bot.state = IF i = 1 THEN "SELECTING_ACTION" ELSE StoryOrder[i - 1]
    /\ (bot.state = StoryOrder[i] /\ bot'.state # StoryOrder[i]) =>
         bot'.state \in {"END"} \cup (IF i = 5 THEN {} ELSE {StoryOrder[i + 1]})

\* Generation was attempted: it had the four inputs, the conversation is over,
\* and every page produced was delivered, as a photo or as text.
GenerationEndsFlow ==
  bot.generation # "none" =>
    /\ DOMAIN bot.inputs = {"product", "history", "making", "artisan"}
    /\ \A k \in DOMAIN bot.inputs : ~Falsy(bot.inputs[k])
    /\ bot.state = "END"
    /\ bot.ended = "storybook"
    /\ Len(bot.delivered) = bot.pages
    /\ bot.generation = "pages" <=> bot.pages > 0

\* C38: the storybook flow collects its inputs strictly in the order user id,
\* product, history, making, artisan; story generation starts only after all
\* four story inputs are stored, and after the generation attempt the flow
\* always ends, whether or not story text or any page image was produced; a
\* page whose image fails is still delivered, as text.
C38_StorybookInOrderAndEnds ==
  /\ [](StoryInputsInOrder /\ GenerationEndsFlow)
  /\ [][StoryStepsInOrder]_vars

\* A two-page story whose second image failed: both pages delivered, the
\* conversation over.
C38_Witness ==
  /\ bot.generation = "pages"
  /\ bot.delivered = <<"photo", "text">>
  /\ bot.state = "END"


\* C39: whenever a Telegram conversation ends (onboarding completed,
\* storybook finished, cancel, or a backend request error), user_data has
\* been cleared, so that nothing of the ended conversation is visible to the
\* user's next conversation.
C39_UserDataClearedAtEnd ==
  (bot.state = "END" /\ bot.ended # "none") => bot.user_data = EmptyMap


(* ------------------------ claims on image editing ---------------------- *)

\* C40: when every image-generation attempt of an image-edit request fails
\* (primary model, alternate locations and alternate models), the request
\* ends with the bad-gateway (502) error and stores no media record.
C40_AllAttemptsFailedIs502 ==
  [][(/\ api' # api
      /\ api'.endpoint = "edit_image"
      /\ api'.detail = "Image generation failed")
     => (api'.code = 502 /\ media' = media)]_vars

=============================================================================
